---------------------------- MODULE Spec2Model ----------------------------
(***************************************************************************)
(* A model of the eCourts scraper: the catalog fetchers of app.py          *)
(* (fetch_states, fetch_districts, fetch_court_complexes, fetch_courts     *)
(* and their static fallbacks) and the case locator of scraper.py          *)
(* (search_ecourts_cause_list, search_cause_list_for_case and the case     *)
(* lookup of main).                                                        *)
(*                                                                         *)
(* Strings are sequences of tokens (words, numbers, punctuation, and the   *)
(* whitespace tokens " " and "\n"), so that strip, split, lower, substring *)
(* search and the regular expressions of the code are computed on the      *)
(* text and not assumed.  An optional value is <<>> (None) or <<v>>.       *)
(* The upstream web site is the environment: every request draws its       *)
(* answer from a finite set of responses.                                  *)
(***************************************************************************)
EXTENDS Integers, Sequences, FiniteSets, TLC

VARIABLES
    op,              \* the running top-level function, or "idle"
    args,            \* its arguments
    pc,              \* its position: which request it issues next
    idx,             \* index into the URL list of the current loop
    results,         \* search_cause_list_for_case: the local dict `results`
    ret,             \* the value returned (when pc = "done")
    raised,          \* an exception left the top-level function
    log,             \* the requests issued so far by this call
    ajax_nodes,      \* <<nodes>> once an AJAX answer was turned into nodes
    html_nodes,      \* <<nodes>> once a page was scraped for its options
    fallback_called, \* the static fallback function was invoked
    reached,         \* some request of this call was answered
    form_resp,       \* the answer to the form-page GET, <<>> before it
    produced,        \* <<[by, at, found, case_pdf]>> once a strategy has
                     \* produced found = True or a document link
    captcha_warned,  \* the CAPTCHA warning of line 149 was printed
    cli,             \* main: <<[argv, identifier, date]>> while main runs
    out,             \* main: <<the JSON object saved>>, <<>> before
    exit_code,       \* main: <<the value main returned>>, <<>> before
    year_padded,     \* the C library's %Y pads a year below 1000 to four digits
    dl,              \* main's call of download_and_search_pdf: <<>>, or what
                     \* it got, wrote and returned
    used,            \* the statuses of the answers whose body gave nodes, a
                     \* match or a document link to this call
    text_hit,        \* <<page>>: the first candidate page answered with 200
                     \* whose flattened text holds the identifier
    probe_hit,       \* <<url>>: the first PDF candidate whose HEAD was answered
                     \* with status 200 and a PDF content type
    web,             \* the route api_download_complex while it serves a
                     \* request: its zip buffer, counter, answer and file
    heap,            \* the requests.Session objects created so far
    thr,             \* per thread: the call it runs and its local `session`
    calls,           \* the number of calls started by the threads
    wire             \* the request a thread's call sent last, <<>> before

\* the state of the call followed step by step
callvars == <<op, args, pc, idx, results, ret, raised, log, ajax_nodes, html_nodes,
              fallback_called, reached, form_resp, produced, captcha_warned,
              cli, out, exit_code, year_padded, used, dl, text_hit,
              probe_hit, web>>

\* the state of the calls running in threads
cvars == <<heap, thr, calls, wire>>

vars == <<callvars, cvars>>

-----------------------------------------------------------------------------
(* Options and strings *)

None == <<>>
Some(v) == <<v>>
IsNone(o) == o = <<>>
Val(o) == o[1]

WS == {" ", "\n"}

RECURSIVE LStrip(_)
LStrip(s) == IF s # <<>> /\ Head(s) \in WS THEN LStrip(Tail(s)) ELSE s

RECURSIVE RStrip(_)
RStrip(s) ==
    IF s # <<>> /\ s[Len(s)] \in WS THEN RStrip(SubSeq(s, 1, Len(s) - 1)) ELSE s

\* str.strip()
Strip(s) == RStrip(LStrip(s))

\* str.lower() / str.upper() on the letters the model's tokens use
LowerTok(t) ==
    CASE t = "Select"   -> "select"
      [] t = "SELECT"   -> "select"
      [] t = "Choose"   -> "choose"
      [] t = "District" -> "district"
      [] t = "DISTRICT" -> "district"
      [] t = "Complex"  -> "complex"
      [] t = "Court"    -> "court"
      [] t = "COURT"    -> "court"
      [] t = "Judge"    -> "judge"
      [] t = "State"    -> "state"
      [] t = "Serial"   -> "serial"
      [] t = "SERIAL"   -> "serial"
      [] t = "High"     -> "high"
      [] t = "Sessions" -> "sessions"
      [] t = "Magistrate" -> "magistrate"
      [] t = "DEMO123456789012" -> "demo123456789012"
      [] t = "Demo123456789012" -> "demo123456789012"
      [] t = "CR"       -> "cr"
      [] t = "Cr"       -> "cr"
      [] t = ".PDF"     -> ".pdf"
      [] t = "Pune"     -> "pune"
      [] t = "Sample"   -> "sample"
      [] t = "Demo"     -> "demo"
      [] OTHER          -> t

Lower(s) == [i \in 1..Len(s) |-> LowerTok(s[i])]

\* needle occurs in hay at position i
OccursAt(hay, needle, i) ==
    /\ i + Len(needle) - 1 <= Len(hay)
    /\ \A k \in 1..Len(needle) : hay[i + k - 1] = needle[k]

\* `needle in hay`
Contains(hay, needle) == \E i \in 1..(Len(hay) + 1) : OccursAt(hay, needle, i)

\* case-insensitive substring test (x.upper() in y.upper(), re.IGNORECASE)
ContainsCI(hay, needle) == Contains(Lower(hay), Lower(needle))

\* str.split('\n')
RECURSIVE SplitLines(_)
SplitLines(s) ==
    IF \A i \in 1..Len(s) : s[i] # "\n" THEN <<s>>
    ELSE LET k == CHOOSE i \in 1..Len(s) :
                      s[i] = "\n" /\ \A j \in 1..(i - 1) : s[j] # "\n"
         IN  <<SubSeq(s, 1, k - 1)>> \o SplitLines(SubSeq(s, k + 1, Len(s)))

\* ' '.join(parts)
RECURSIVE Join(_)
Join(parts) ==
    IF parts = <<>> THEN <<>>
    ELSE IF Len(parts) = 1 THEN parts[1]
    ELSE parts[1] \o <<" ">> \o Join(Tail(parts))

-----------------------------------------------------------------------------
(* Upstream responses *)

\* the request raised (connection error, timeout)
ErrorResp == [kind |-> "error"]

Resp(status, ctype, body) ==
    [kind |-> "resp", status |-> status, ctype |-> ctype, body |-> body]

IsError(r) == r.kind = "error"

\* concatenation of the tokens of s into one string
RECURSIVE Str(_)
Str(s) == IF s = <<>> THEN "" ELSE Head(s) \o Str(Tail(s))

-----------------------------------------------------------------------------
(* app.py: configuration *)

ECOURTS_BASE == "https://services.ecourts.gov.in/ecourtindia_v6/"
ECOURTS_CAUSE_LIST_URL == "https://services.ecourts.gov.in/ecourtindia_v6/?p=cause_list/"

Node(v, t) == [value |-> v, text |-> t]

\* the AJAX endpoints of a level, in the order they are tried
ajax_urls(level) ==
    CASE level = "fetch_districts" ->
           << ECOURTS_BASE \o "ajax/get_districts.php",
              ECOURTS_BASE \o "api/districts.php",
              ECOURTS_BASE \o "get_districts.php" >>
      [] level = "fetch_court_complexes" ->
           << ECOURTS_BASE \o "ajax/get_court_complexes.php",
              ECOURTS_BASE \o "ajax/get_complexes.php",
              ECOURTS_BASE \o "api/complexes.php",
              ECOURTS_BASE \o "get_complexes.php" >>
      [] level = "fetch_courts" ->
           << ECOURTS_BASE \o "ajax/get_courts.php",
              ECOURTS_BASE \o "ajax/get_judges.php",
              ECOURTS_BASE \o "api/courts.php",
              ECOURTS_BASE \o "get_courts.php" >>
      [] OTHER -> << >>

\* the URL of the HTML page a level scrapes
html_url(level, a) ==
    CASE level = "fetch_states" -> ECOURTS_CAUSE_LIST_URL
      [] level = "fetch_districts" ->
           ECOURTS_CAUSE_LIST_URL \o "?state=" \o a.state_code
      [] level = "fetch_court_complexes" ->
           ECOURTS_CAUSE_LIST_URL \o "?state=" \o a.state_code
               \o "&district=" \o a.district_code
      [] OTHER ->
           ECOURTS_CAUSE_LIST_URL \o "?state=" \o a.state_code
               \o "&district=" \o a.district_code \o "&complex=" \o a.complex_code

-----------------------------------------------------------------------------
(* app.py: static fallback tables *)

get_fallback_states ==
    << Node("MH", "Maharashtra"), Node("DL", "Delhi"), Node("KA", "Karnataka"),
       Node("TN", "Tamil Nadu"), Node("UP", "Uttar Pradesh"),
       Node("WB", "West Bengal"), Node("GJ", "Gujarat"), Node("RJ", "Rajasthan"),
       Node("AP", "Andhra Pradesh"), Node("TS", "Telangana"),
       Node("MP", "Madhya Pradesh"), Node("OR", "Odisha"), Node("KL", "Kerala"),
       Node("AS", "Assam"), Node("PB", "Punjab"), Node("HR", "Haryana"),
       Node("JH", "Jharkhand"), Node("CG", "Chhattisgarh"), Node("BR", "Bihar"),
       Node("HP", "Himachal Pradesh") >>

fallback_districts ==
    [ MH |-> << Node("MH01", "Mumbai City"), Node("MH02", "Mumbai Suburban"),
                Node("MH03", "Pune"), Node("MH04", "Nagpur"), Node("MH05", "Thane"),
                Node("MH06", "Nashik"), Node("MH07", "Aurangabad") >>,
      DL |-> << Node("DL01", "Central Delhi"), Node("DL02", "East Delhi"),
                Node("DL03", "New Delhi"), Node("DL04", "North Delhi"),
                Node("DL05", "South Delhi"), Node("DL06", "West Delhi") >>,
      KA |-> << Node("KA01", "Bangalore Urban"), Node("KA02", "Bangalore Rural"),
                Node("KA03", "Mysore"), Node("KA04", "Hubli-Dharwad"),
                Node("KA05", "Mangalore") >> ]

get_fallback_districts(state_code) ==
    IF state_code \in DOMAIN fallback_districts
    THEN fallback_districts[state_code]
    ELSE << Node(state_code \o "01", state_code \o " District 1"),
            Node(state_code \o "02", state_code \o " District 2") >>

fallback_complexes ==
    [ MH |-> [ MH01 |-> << Node("MH01C01", "Mumbai City Civil Court"),
                           Node("MH01C02", "Mumbai Sessions Court"),
                           Node("MH01C03", "Mumbai High Court"),
                           Node("MH01C04", "Mumbai Magistrate Court") >>,
               MH02 |-> << Node("MH02C01", "Andheri Court Complex"),
                           Node("MH02C02", "Bandra Court Complex"),
                           Node("MH02C03", "Borivali Court Complex") >>,
               MH03 |-> << Node("MH03C01", "Pune Civil Court"),
                           Node("MH03C02", "Pune Sessions Court"),
                           Node("MH03C03", "Pune Magistrate Court") >> ],
      DL |-> [ DL01 |-> << Node("DL01C01", "Tis Hazari Courts Complex"),
                           Node("DL01C02", "Delhi High Court"),
                           Node("DL01C03", "Patiala House Courts") >>,
               DL02 |-> << Node("DL02C01", "Karkardooma Courts Complex"),
                           Node("DL02C02", "Shahdara Court Complex") >> ],
      KA |-> [ KA01 |-> << Node("KA01C01", "Bangalore City Civil Court"),
                           Node("KA01C02", "Bangalore Sessions Court"),
                           Node("KA01C03", "Karnataka High Court") >> ] ]

\* a fallback that synthesizes two complexes, as the district level does
get_fallback_complexes_two(state_code, district_code) ==
    LET state_complexes ==
            IF state_code \in DOMAIN fallback_complexes
            THEN fallback_complexes[state_code] ELSE << >>
        district_complexes ==
            IF district_code \in DOMAIN state_complexes
            THEN state_complexes[district_code] ELSE << >>
    IN  IF district_complexes = << >>
        THEN << Node(district_code \o "01", district_code \o " Complex 1"),
                Node(district_code \o "02", district_code \o " Complex 2") >>
        ELSE district_complexes

get_fallback_complexes(state_code, district_code) ==
    LET state_complexes ==
            IF state_code \in DOMAIN fallback_complexes
            THEN fallback_complexes[state_code] ELSE << >>
        district_complexes ==
            IF district_code \in DOMAIN state_complexes
            THEN state_complexes[district_code] ELSE << >>
    IN  IF district_complexes = << >>
        THEN << Node(state_code \o district_code \o "C01",
                     state_code \o " " \o district_code \o " Civil Court"),
                Node(state_code \o district_code \o "C02",
                     state_code \o " " \o district_code \o " Sessions Court"),
                Node(state_code \o district_code \o "C03",
                     state_code \o " " \o district_code \o " Magistrate Court") >>
        ELSE district_complexes

get_fallback_courts(state_code, district_code, complex_code) ==
    << Node(complex_code \o "CT01", "Court No. 1 / Judge 1"),
       Node(complex_code \o "CT02", "Court No. 2 / Judge 2"),
       Node(complex_code \o "CT03", "Court No. 3 / Judge 3"),
       Node(complex_code \o "CT04", "Court No. 4 / Judge 4"),
       Node(complex_code \o "CT05", "Court No. 5 / Judge 5") >>

\* the static fallback of a level for the call's arguments
get_fallback(level, a) ==
    CASE level = "fetch_states" -> get_fallback_states
      [] level = "fetch_districts" -> get_fallback_districts(a.state_code)
      [] level = "fetch_court_complexes" ->
           get_fallback_complexes(a.state_code, a.district_code)
      [] OTHER -> get_fallback_courts(a.state_code, a.district_code, a.complex_code)

-----------------------------------------------------------------------------
(* app.py: the dynamic (AJAX) endpoint of a level *)

NotJson == [json |-> "invalid"]
JsonObject == [json |-> "object"]
JsonList(items) == [json |-> "list", items |-> items]

\* JSON null, which response.json() turns into Python's None: no string, and
\* falsy
JSON_NULL == "<null>"

\* a JSON object entry; each key is absent (None), or holds a string or null
Dict(code, value, name, text) ==
    [isdict |-> TRUE, code |-> code, value |-> value, name |-> name, text |-> text]
\* a JSON entry that is no object (a number, a string)
NonDict == [isdict |-> FALSE]

\* d.get(k, default)
DictGet(d, k, default) == IF IsNone(d[k]) THEN default ELSE Val(d[k])

\* `d.get("name") or d.get("text")`
HasLabel(d) ==
    \/ DictGet(d, "name", JSON_NULL) \notin {"", JSON_NULL}
    \/ DictGet(d, "text", JSON_NULL) \notin {"", JSON_NULL}

\* the list comprehension of lines 129-130: {ok, nodes}; ok is FALSE when
\* an entry has no .get (AttributeError)
AjaxNodes(items) ==
    IF \E i \in 1..Len(items) : ~items[i].isdict
    THEN [ok |-> FALSE, nodes |-> << >>]
    ELSE [ok |-> TRUE,
          nodes |-> LET kept == SelectSeq(items, HasLabel)
                    IN  [i \in 1..Len(kept) |->
                           Node(DictGet(kept[i], "code", DictGet(kept[i], "value", "")),
                                DictGet(kept[i], "name", DictGet(kept[i], "text", "")))]]

\* OnException without the try around the POST to an endpoint
OnExceptionAjaxUncaught(site) ==
    CASE site = "ajax_json"  -> "pass"
      [] site = "html"       -> "pass"
      [] site = "states"     -> "return_fallback"
      [] site = "outer"      -> "return_fallback"
      [] site = "form"       -> "return_results"
      [] site = "text"       -> "continue"
      [] site = "head"       -> "continue"
      [] OTHER               -> "propagate"

\* OnException without the try around the body of the candidate loop
OnExceptionTextUncaught(site) ==
    CASE site = "ajax_post"  -> "continue"
      [] site = "ajax_json"  -> "pass"
      [] site = "html"       -> "pass"
      [] site = "states"     -> "return_fallback"
      [] site = "outer"      -> "return_fallback"
      [] site = "form"       -> "return_results"
      [] site = "head"       -> "continue"
      [] OTHER               -> "propagate"

\* where control goes when the statement at `site` raises
OnException(site) ==
    CASE site = "ajax_post"  -> "continue"         \* app.py 133-134
      [] site = "ajax_json"  -> "pass"             \* app.py 131-132
      [] site = "html"       -> "pass"             \* app.py 157-158
      [] site = "states"     -> "return_fallback"  \* app.py 79-81
      [] site = "outer"      -> "return_fallback"  \* app.py 163-165
      [] site = "form"       -> "return_results"   \* scraper.py 208-211
      [] site = "text"       -> "continue"         \* scraper.py 283-286
      [] site = "head"       -> "continue"         \* scraper.py 312-313
      [] OTHER               -> "propagate"

\* one iteration of `for ajax_url in ajax_urls`: "return" with nodes, "next",
\* or "raise" (the exception reaches the function's outer try)
AjaxIteration(r) ==
    IF IsError(r)
    THEN [ctl |-> IF OnException("ajax_post") = "continue" THEN "next" ELSE "raise",
          nodes |-> << >>]
    ELSE IF r.status # 200 THEN [ctl |-> "next", nodes |-> << >>]
    ELSE IF r.body.json = "invalid"
    THEN [ctl |-> IF OnException("ajax_json") = "pass" THEN "next" ELSE "raise",
          nodes |-> << >>]
    ELSE IF r.body.json = "list" /\ r.body.items # << >>
    THEN LET c == AjaxNodes(r.body.items)
         IN  IF c.ok THEN [ctl |-> "return", nodes |-> c.nodes]
             ELSE [ctl |-> IF OnException("ajax_json") = "pass"
                           THEN "next" ELSE "raise",
                   nodes |-> << >>]
    ELSE [ctl |-> "next", nodes |-> << >>]

-----------------------------------------------------------------------------
(* app.py: the HTML scrape of a level *)

Option(v, t) == [value |-> v, text |-> t]
Select(name, id, class, options) ==
    [name |-> name, id |-> id, class |-> class, options |-> options]

\* re.compile(pattern, re.IGNORECASE) searched in an attribute value; an
\* absent attribute (<<>>) never matches
AttrMatch(attrval, pattern) ==
    \E i \in 1..Len(attrval) : LowerTok(attrval[i]) = pattern

\* soup.find("select", {attr: pattern}): the index of the first such select
\* in document order, 0 when there is none
FindSelect(selects, attr, pattern) ==
    IF \E i \in 1..Len(selects) : AttrMatch(selects[i][attr], pattern)
    THEN CHOOSE i \in 1..Len(selects) :
             /\ AttrMatch(selects[i][attr], pattern)
             /\ \A j \in 1..(i - 1) : ~AttrMatch(selects[j][attr], pattern)
    ELSE 0

\* the attribute/pattern pairs of a level's `find(...) or find(...)` chain
select_patterns(level) ==
    CASE level = "fetch_states" ->
           << <<"name", "state">>, <<"id", "state">>, <<"class", "state">> >>
      [] level = "fetch_districts" ->
           << <<"name", "district">>, <<"id", "district">> >>
      [] level = "fetch_court_complexes" ->
           << <<"name", "complex">>, <<"id", "complex">>, <<"class", "complex">>,
              <<"name", "court">> >>
      [] OTHER ->
           << <<"name", "court">>, <<"id", "court">>, <<"class", "court">>,
              <<"name", "judge">> >>

\* a Tag is always truthy: the chain yields the first find that is not None
RECURSIVE FirstFound(_, _)
FirstFound(selects, pats) ==
    IF pats = << >> THEN 0
    ELSE LET i == FindSelect(selects, Head(pats)[1], Head(pats)[2])
         IN  IF i # 0 THEN i ELSE FirstFound(selects, Tail(pats))

\* the option labels a level drops, compared with text.lower()
placeholders(level) ==
    CASE level = "fetch_states" -> {"select state", "choose state", ""}
      [] level = "fetch_districts" -> {"select district", "choose district", ""}
      [] level = "fetch_court_complexes" ->
           {"select complex", "choose complex", "select court", "choose court", ""}
      [] OTHER ->
           {"select court", "choose court", "select judge", "choose judge", ""}

KeepOption(level, o) ==
    /\ Str(Strip(o.value)) # ""
    /\ Str(Strip(o.text)) # ""
    /\ Str(Lower(Strip(o.text))) \notin placeholders(level)

\* the nodes the HTML scrape of a level extracts from a page
HtmlScrape(level, page) ==
    LET i == FirstFound(page.selects, select_patterns(level))
    IN  IF i = 0 THEN << >>
        ELSE LET Keep(o) == KeepOption(level, o)
                 kept == SelectSeq(page.selects[i].options, Keep)
             IN  [k \in 1..Len(kept) |->
                    Node(Str(Strip(kept[k].value)), Str(Strip(kept[k].text)))]

-----------------------------------------------------------------------------
(* Inputs and upstream answers of the catalog fetchers *)

StateCodes == {"MH", "ZZ"}
DistrictCodes == {"MH01", "ZZ01"}
ComplexCodes == {"MH01C01"}

E_pune == Dict(Some("MH03"), None, Some("Pune"), None)
E_thane == Dict(None, Some("MH05"), None, Some("Thane"))
E_nolabel == Dict(Some("MH09"), None, None, None)
E_emptyname == Dict(Some("MH08"), None, Some(""), Some("Nashik"))
E_nullname == Dict(Some("CT09"), None, Some(JSON_NULL), Some("Court 9"))

AjaxResponses ==
    { ErrorResp,
      Resp(404, "application/json", JsonList(<<E_pune>>)),
      Resp(200, "text/html", NotJson),
      Resp(200, "application/json", JsonObject),
      Resp(200, "application/json", JsonList(<< >>)),
      Resp(200, "application/json", JsonList(<<E_pune, E_thane>>)),
      Resp(200, "application/json", JsonList(<<E_pune, E_nolabel>>)),
      Resp(200, "application/json", JsonList(<<E_nolabel>>)),
      Resp(200, "application/json", JsonList(<<E_emptyname>>)),
      Resp(200, "application/json", JsonList(<<E_pune, E_nullname>>)),
      Resp(200, "application/json", JsonList(<<E_pune, NonDict>>)) }

O_placeholder(what) == Option(<<"0">>, <<"Select", " ", what>>)
O_real == Option(<<" ", "X1", " ">>, <<"\n", "Pune", " ">>)
O_real2 == Option(<<"X2">>, <<"Nagpur">>)
O_novalue == Option(<< >>, <<"Thane">>)

\* a page holding a drop-down for every level, each with real options
PageFull ==
    [selects |->
       << Select(<<"sess", "_", "state", "_", "code">>, << >>, << >>,
                 <<O_placeholder("State"), O_real, O_real2>>),
          Select(<<"sess", "_", "dist", "_", "code">>, <<"DISTRICT", "_", "sel">>, << >>,
                 <<O_placeholder("District"), O_real, O_novalue>>),
          Select(<<"court", "_", "complex", "_", "code">>, << >>, << >>,
                 <<O_placeholder("Complex"), O_real2>>),
          Select(<<"CL", "_", "court", "_", "no">>, << >>, <<"judge">>,
                 <<O_placeholder("Court"), O_real, O_real2>>) >>]

\* the drop-downs are there but hold only their placeholder
PagePlaceholders ==
    [selects |->
       << Select(<<"state">>, << >>, << >>, <<O_placeholder("State")>>),
          Select(<<"district">>, << >>, << >>, <<O_placeholder("District")>>),
          Select(<<"complex">>, << >>, << >>, <<O_placeholder("Complex")>>),
          Select(<<"court">>, << >>, << >>, <<O_placeholder("Court")>>) >>]

PageNoSelect == [selects |-> << >>]

\* for every level a drop-down matched by name that holds only its
\* placeholder, followed by one matched by id that holds a real option
PageLaterSelect ==
    [selects |->
       << Select(<<"state">>, << >>, << >>, <<O_placeholder("State")>>),
          Select(<< >>, <<"state", "_", "sel">>, << >>, <<O_real>>),
          Select(<<"district">>, << >>, << >>, <<O_placeholder("District")>>),
          Select(<< >>, <<"district", "_", "sel">>, << >>, <<O_real>>),
          Select(<<"complex">>, << >>, << >>, <<O_placeholder("Complex")>>),
          Select(<< >>, <<"complex", "_", "sel">>, << >>, <<O_real2>>),
          Select(<<"court">>, << >>, << >>, <<O_placeholder("Court")>>),
          Select(<< >>, <<"court", "_", "sel">>, << >>, <<O_real>>) >>]

CatalogPages == {PageFull, PagePlaceholders, PageNoSelect, PageLaterSelect}

HtmlResponses ==
    {ErrorResp} \cup
    { Resp(st, "text/html", p) : st \in {200, 503}, p \in CatalogPages }

-----------------------------------------------------------------------------
(* scraper.py: dates and URLs *)

\* %d and %m: two digits
Pad2(n) == IF n < 10 THEN "0" \o ToString(n) ELSE ToString(n)

\* four digits
Pad4(n) ==
    IF n < 10 THEN "000" \o ToString(n)
    ELSE IF n < 100 THEN "00" \o ToString(n)
    ELSE IF n < 1000 THEN "0" \o ToString(n)
    ELSE ToString(n)

\* %Y is the C library's: glibc prints the digits of a year below 1000,
\* other libraries pad it to four
PercentY(y) == IF year_padded THEN Pad4(y) ELSE ToString(y)

\* check_date.strftime("%d-%m-%Y")
strftime_ddmmyyyy(dt) == Pad2(dt.d) \o "-" \o Pad2(dt.m) \o "-" \o PercentY(dt.y)

\* check_date.strftime("%Y-%m-%d")
strftime_yyyy_mm_dd(dt) == PercentY(dt.y) \o "-" \o Pad2(dt.m) \o "-" \o Pad2(dt.d)

\* str(check_date): the ISO form, the year always four digits
isoformat(dt) == Pad4(dt.y) \o "-" \o Pad2(dt.m) \o "-" \o Pad2(dt.d)

IsLeap(y) == (y % 4 = 0 /\ y % 100 # 0) \/ y % 400 = 0
DaysIn(y, m) ==
    IF m = 2 THEN (IF IsLeap(y) THEN 29 ELSE 28)
    ELSE IF m \in {4, 6, 9, 11} THEN 30 ELSE 31

\* date + timedelta(days=1)
NextDay(dt) ==
    IF dt.d < DaysIn(dt.y, dt.m) THEN [dt EXCEPT !.d = dt.d + 1]
    ELSE IF dt.m < 12 THEN [dt EXCEPT !.m = dt.m + 1, !.d = 1]
    ELSE [y |-> dt.y + 1, m |-> 1, d |-> 1]

\* the years a date of the inputs can name (datetime.MINYEAR is 1)
Years == 1..2100

\* the number a field of the date text stands for: %Y takes exactly four
\* digits, %m and %d one or two
ParseField(tok, range, four) ==
    LET S == { n \in range : IF four THEN Pad4(n) = tok
                                     ELSE ToString(n) = tok \/ Pad2(n) = tok }
    IN  IF S = {} THEN None ELSE Some(CHOOSE n \in S : TRUE)

\* datetime.strptime(text, "%Y-%m-%d").date(); None stands for ValueError
strptime(text) ==
    IF Len(text) # 5 \/ text[2] # "-" \/ text[4] # "-" THEN None
    ELSE LET y == ParseField(text[1], Years, TRUE)
             m == ParseField(text[3], 1..12, FALSE)
             d == ParseField(text[5], 1..31, FALSE)
         IN  IF IsNone(y) \/ IsNone(m) \/ IsNone(d) THEN None
             ELSE IF Val(d) > DaysIn(Val(y), Val(m)) THEN None
             ELSE Some([y |-> Val(y), m |-> Val(m), d |-> Val(d)])

\* the year the call with arguments a formats, None when it formats none
FormattedYear(a) ==
    IF "check_date" \in DOMAIN a THEN Some(a.check_date.y)
    ELSE IF "date_str" \in DOMAIN a /\ ~IsNone(strptime(a.date_str))
    THEN Some(Val(strptime(a.date_str)).y)
    ELSE None

\* what the C library of the run may do with %Y for the year of the call
YearPaddings(a) ==
    IF ~IsNone(FormattedYear(a)) /\ Val(FormattedYear(a)) < 1000
    THEN BOOLEAN ELSE {FALSE}

\* check_date.strftime("%d-%m-%y")
strftime_ddmmyy(dt) == Pad2(dt.d) \o "-" \o Pad2(dt.m) \o "-" \o Pad2(dt.y % 100)

CAUSE_LIST_URL ==
    ECOURTS_BASE \o "?p=cause_list/index&app_token=7970d9011f0e6dc03b8549c7b2c9fae2c22b543bb6e33d6e43686becea3434e3"

HOME_URL ==
    ECOURTS_BASE \o "?p=home/index&app_token=2829a7e11a857da6b646dab029a6c38d1dfe692e9ee9e4d0945d2ba65e03def1"

\* the TEXT_SEARCH candidates, home page appended last
possible_urls(dt) ==
    << CAUSE_LIST_URL,
       CAUSE_LIST_URL \o "&date=" \o strftime_ddmmyyyy(dt),
       CAUSE_LIST_URL \o "&date=" \o strftime_yyyy_mm_dd(dt),
       ECOURTS_BASE \o "causeList?date=" \o strftime_ddmmyyyy(dt),
       ECOURTS_BASE \o "causeList?date=" \o strftime_yyyy_mm_dd(dt),
       ECOURTS_BASE \o "causelistpdf?date=" \o strftime_ddmmyyyy(dt),
       ECOURTS_BASE \o "causelistpdf?date=" \o strftime_yyyy_mm_dd(dt),
       HOME_URL >>

pdf_name_candidates(dt) ==
    << "causelist_" \o strftime_yyyy_mm_dd(dt) \o ".pdf",
       "CauseList_" \o strftime_yyyy_mm_dd(dt) \o ".pdf",
       "CauseList_" \o strftime_ddmmyyyy(dt) \o ".pdf",
       "causelist_" \o strftime_ddmmyy(dt) \o ".pdf",
       "daily_causelist_" \o strftime_ddmmyyyy(dt) \o ".pdf" >>

base_attempts ==
    << ECOURTS_BASE \o "static_causes/",
       ECOURTS_BASE \o "causelists/",
       ECOURTS_BASE \o "uploads/causelists/",
       ECOURTS_BASE \o "pdfs/",
       ECOURTS_BASE \o "documents/" >>

\* the PDF candidates in the order of the nested loops: every name of a base
\* before the next base
pdf_urls(dt) ==
    LET names == pdf_name_candidates(dt)
    IN  [k \in 1..(Len(base_attempts) * Len(names)) |->
           base_attempts[((k - 1) \div Len(names)) + 1]
               \o names[((k - 1) % Len(names)) + 1]]

\* urljoin(response.url, href) for the responses of this site: an absolute
\* href stands, a relative one is resolved against the site's directory, and
\* an href with an unclosed "[" in its host raises ValueError
UrlJoin(href) ==
    IF href # << >> /\ Head(href) = "//["
    THEN [ok |-> FALSE, url |-> ""]
    ELSE IF href # << >> /\ Head(href) \in {"http://", "https://"}
    THEN [ok |-> TRUE, url |-> Str(href)]
    ELSE [ok |-> TRUE, url |-> ECOURTS_BASE \o Str(href)]

-----------------------------------------------------------------------------
(* scraper.py: text extraction *)

Elem(tag, text, href) == [tag |-> tag, text |-> text, href |-> href]
Form(date_field, court_field, captcha_field) ==
    [date_field |-> date_field, court_field |-> court_field,
     captcha_field |-> captcha_field]
Page(forms, elems) == [forms |-> forms, elems |-> elems]

NonEmpty(s) == s # << >>

\* soup.get_text(separator=" ", strip=True): the stripped text nodes that
\* are not empty, joined by one space
GetText(elems) ==
    Join(SelectSeq([i \in 1..Len(elems) |-> Strip(elems[i].text)], NonEmpty))

Numbers == {"7", "12", "42", "123", "1234", "2024"}
IsNum(t) == t \in Numbers
Punct == {".", ":", "-", "/", ",", "_", "//[", "http://"}
\* a token made of word characters
WordTok(t) == t \notin WS /\ t \notin Punct

\* \b after position k of line
BoundaryAfter(line, k) == k = Len(line) \/ ~WordTok(line[k + 1])

\* re.search(r'^\s*(\d+)[\.\s]', line)
SerialAtStart(line) ==
    LET l == LStrip(line)
    IN  IF Len(l) >= 2 /\ IsNum(l[1]) /\ l[2] \in ({"."} \cup WS)
        THEN Some(l[1]) ELSE None

\* the index of the first token at or after j that is neither ":" nor
\* whitespace
RECURSIVE SkipColonWs(_, _)
SkipColonWs(line, j) ==
    IF j <= Len(line) /\ line[j] \in ({":"} \cup WS)
    THEN SkipColonWs(line, j + 1) ELSE j

\* re.search(r"\bSerial[:\s]*([0-9]+)\b", line, re.IGNORECASE) matches at i
SerialWordAt(line, i) ==
    LET k == SkipColonWs(line, i + 1)
    IN  /\ LowerTok(line[i]) = "serial"
        /\ (i = 1 \/ ~WordTok(line[i - 1]))
        /\ k <= Len(line)
        /\ IsNum(line[k])
        /\ BoundaryAfter(line, k)

\* re.search(r"^\s*([0-9]{1,3})\b", line)
SerialUpTo3(line) ==
    LET l == LStrip(line)
    IN  IF l # << >> /\ IsNum(l[1]) /\ Len(l[1]) <= 3 /\ BoundaryAfter(l, 1)
        THEN Some(l[1]) ELSE None

\* line 266: the "Serial" pattern or else the leading number
SerialOfLine(line) ==
    IF \E i \in 1..Len(line) : SerialWordAt(line, i)
    THEN LET i == CHOOSE i \in 1..Len(line) :
                      /\ SerialWordAt(line, i)
                      /\ \A j \in 1..(i - 1) : ~SerialWordAt(line, j)
         IN  Some(line[SkipColonWs(line, i + 1)])
    ELSE SerialUpTo3(line)

court_patterns == <<"district", "high", "sessions", "magistrate">>

\* "<kind> Court" starts at position i of the text (case-insensitively)
CourtAt(text, kind, i) ==
    /\ i + 2 <= Len(text)
    /\ LowerTok(text[i]) = kind
    /\ text[i + 1] = " "
    /\ LowerTok(text[i + 2]) = "court"

\* the group of r'(<Kind> Court[^,\n]*)' matched from position i: up to the
\* next comma or line break
RECURSIVE UpToComma(_, _)
UpToComma(text, i) ==
    IF i > Len(text) \/ text[i] \in {",", "\n"} THEN << >>
    ELSE <<text[i]>> \o UpToComma(text, i + 1)

\* lines 176-187: the first pattern, in list order, that matches the context
RECURSIVE CourtName(_, _)
CourtName(context, pats) ==
    IF pats = << >> THEN None
    ELSE IF \E i \in 1..Len(context) : CourtAt(context, Head(pats), i)
    THEN LET i == CHOOSE i \in 1..Len(context) :
                      /\ CourtAt(context, Head(pats), i)
                      /\ \A j \in 1..(i - 1) : ~CourtAt(context, Head(pats), j)
         IN  Some(Str(Strip(UpToComma(context, i))))
    ELSE CourtName(context, Tail(pats))

\* the index of the first element of s that satisfies Test, 0 when none does
FirstIndex(s, Test(_)) ==
    IF \E i \in 1..Len(s) : Test(s[i])
    THEN CHOOSE i \in 1..Len(s) : Test(s[i]) /\ \A j \in 1..(i - 1) : ~Test(s[j])
    ELSE 0

\* href matches r'\.pdf$' (re.IGNORECASE) / href.lower().endswith(".pdf")
EndsWithPdf(href) == href # << >> /\ LowerTok(href[Len(href)]) = ".pdf"

-----------------------------------------------------------------------------
(* scraper.py: the three strategies *)

DefaultResults ==
    [found |-> FALSE, serial_number |-> None, court_name |-> None,
     case_pdf |-> None, matched_line |-> None]

IsPdfAnchor(e) == e.tag = "a" /\ ~IsNone(e.href) /\ EndsWithPdf(Val(e.href))

\* FormMatch forgetting results["matched_line"]
FormMatchNoLine(id, lines) ==
    LET HasId(line) == ContainsCI(line, id)
        i == FirstIndex(lines, HasId)
    IN  IF i = 0 THEN DefaultResults
        ELSE [DefaultResults EXCEPT !.found = TRUE,
                                    !.serial_number = SerialAtStart(lines[i])]

\* lines 160-189: the first line of the page text holding the identifier
FormMatch(id, lines) ==
    LET HasId(line) == ContainsCI(line, id)
        i == FirstIndex(lines, HasId)
        lo == IF i - 5 > 1 THEN i - 5 ELSE 1
        hi == IF i + 4 < Len(lines) THEN i + 4 ELSE Len(lines)
    IN  IF i = 0 THEN DefaultResults
        ELSE [found |-> TRUE,
              matched_line |-> Some(Str(Strip(lines[i]))),
              serial_number |-> SerialAtStart(lines[i]),
              court_name |-> CourtName(Join(SubSeq(lines, lo, hi)), court_patterns),
              case_pdf |-> None]

\* search_ecourts_cause_list after the answer r to its GET: the dict it
\* returns, or the exception it lets out
search_ecourts_cause_list(id, r) ==
    LET caught == OnException("form") = "return_results"
    IN  IF IsError(r)
        THEN [ctl |-> IF caught THEN "return" ELSE "raise",
              results |-> DefaultResults, captcha |-> FALSE]
        ELSE IF r.status # 200
        THEN [ctl |-> "return", results |-> DefaultResults, captcha |-> FALSE]
        ELSE
          LET page == r.body
              captcha == page.forms # << >> /\ page.forms[1].captcha_field
              page_text == GetText(page.elems)
              res1 == IF id # << >> /\ ContainsCI(page_text, id)
                      THEN FormMatch(id, SplitLines(page_text))
                      ELSE DefaultResults
              k == FirstIndex(page.elems, IsPdfAnchor)
              u == IF k = 0 THEN [ok |-> TRUE, url |-> ""]
                   ELSE UrlJoin(Val(page.elems[k].href))
          IN  IF k = 0
              THEN [ctl |-> "return", results |-> res1, captcha |-> captcha]
              ELSE IF u.ok
              THEN [ctl |-> "return",
                    results |-> [res1 EXCEPT !.case_pdf = Some(u.url)],
                    captcha |-> captcha]
              ELSE [ctl |-> IF caught THEN "return" ELSE "raise",
                    results |-> res1, captcha |-> captcha]

IsHeading(e) == e.tag \in {"h1", "h2", "h3", "strong"}
HasHref(e) == e.tag = "a" /\ ~IsNone(e.href)

\* parent.find_all_next("a", href=True, limit=6): the first six anchors with
\* an href after element k
NextAnchors(elems, k) ==
    LET after == SelectSeq(SubSeq(elems, k + 1, Len(elems)), HasHref)
    IN  SubSeq(after, 1, IF Len(after) < 6 THEN Len(after) ELSE 6)

\* one turn of `for url in possible_urls` (lines 252-286) on the answer r,
\* with `results` as the turn finds it
TextIteration(id, res, r) ==
    LET caught == OnException("text") = "continue"
        skip == [ctl |-> "continue", results |-> res, matched |-> FALSE]
    IN  IF IsError(r)
        THEN [skip EXCEPT !.ctl = IF caught THEN "continue" ELSE "raise"]
        ELSE IF r.status # 200 THEN skip
        ELSE
          LET elems == r.body.elems
              text == GetText(elems)
              HasId(e) == ContainsCI(e.text, id)
              k == FirstIndex(elems, HasId)
          IN  IF ~(id # << >> /\ (Contains(text, id) \/ ContainsCI(text, id)))
              THEN skip
              ELSE IF k = 0 THEN skip
              ELSE
                LET line == Strip(elems[k].text)
                    h == FirstIndex(elems, IsHeading)
                    res1 == [res EXCEPT
                               !.found = TRUE,
                               !.serial_number = SerialOfLine(line),
                               !.court_name =
                                   IF h = 0 THEN None
                                   ELSE Some(Str(Strip(elems[h].text))),
                               !.matched_line = Some(Str(line))]
                    anchors == NextAnchors(elems, k)
                    j == FirstIndex(anchors, IsPdfAnchor)
                    u == IF j = 0 THEN [ok |-> TRUE, url |-> ""]
                         ELSE UrlJoin(Val(anchors[j].href))
                IN  IF j = 0
                    THEN [ctl |-> "return", results |-> res1, matched |-> TRUE]
                    ELSE IF u.ok
                    THEN [ctl |-> "return",
                          results |-> [res1 EXCEPT !.case_pdf = Some(u.url)],
                          matched |-> TRUE]
                    ELSE [ctl |-> IF caught THEN "continue" ELSE "raise",
                          results |-> res1, matched |-> TRUE]

\* 'application/pdf' in head.headers.get('Content-Type', '')
IsPdfType(ctype) == ctype \in {"application/pdf", "application/pdf; charset=binary"}

\* HeadIteration accepting any answer with status 200
HeadIterationAnyType(res, pdf_url, r) ==
    IF IsError(r) THEN [ctl |-> "continue", results |-> res]
    ELSE IF r.status = 200
    THEN [ctl |-> "return",
          results |-> [res EXCEPT !.found = FALSE, !.case_pdf = Some(pdf_url)]]
    ELSE [ctl |-> "continue", results |-> res]

\* one turn of the PDF probing loops (lines 305-313) on the answer r
HeadIteration(res, pdf_url, r) ==
    IF IsError(r)
    THEN [ctl |-> IF OnException("head") = "continue" THEN "continue" ELSE "raise",
          results |-> res]
    ELSE IF r.status = 200 /\ IsPdfType(r.ctype)
    THEN [ctl |-> "return",
          results |-> [res EXCEPT !.found = FALSE, !.case_pdf = Some(pdf_url)]]
    ELSE [ctl |-> "continue", results |-> res]

-----------------------------------------------------------------------------
(* Inputs and upstream answers of the case locator *)

CNR == <<"DEMO123456789012">>
TYPE_NO_YEAR == <<"CR", " ", "123", " ", "/", " ", "2024">>

\* "" is the identifier of the cause-list mode
Identifiers == {CNR, TYPE_NO_YEAR, << >>}

Dates == {[y |-> 2024, m |-> 10, d |-> 20], [y |-> 2025, m |-> 1, d |-> 5]}

T(words) == Join([i \in 1..Len(words) |-> <<words[i]>>])

\* the cause-list form, CAPTCHA-protected, listing nothing
PageCaptcha ==
    Page(<<Form(Some("20-10-2024"), TRUE, TRUE)>>,
         <<Elem("title", T(<<"Cause", "List">>), None),
           Elem("p", <<"\n", " ">>, None)>>)

\* a court heading, then the listing line in its own paragraph
PageListed ==
    Page(<< >>,
         <<Elem("h2", T(<<"District", "Court", "Pune">>), None),
           Elem("p", <<"42", ".", " ">> \o CNR \o <<" ", "-", " ">>
                       \o T(<<"Sample", "vs", "Demo">>), None)>>)

\* preformatted text: the listing line is a line of one text node
PagePre ==
    Page(<<Form(None, FALSE, FALSE)>>,
         <<Elem("pre", T(<<"Daily", "List">>) \o <<"\n", "42", ".", " ">> \o CNR
                         \o <<" ", "-", " ", "Sample", "\n">>
                         \o T(<<"High", "Court">>) \o <<",", " ", "Pune">>, None)>>)

\* no listing, but a link to the day's cause-list PDF
PagePdfLink ==
    Page(<<Form(None, FALSE, TRUE)>>,
         <<Elem("p", T(<<"Cause", "List">>), None),
           Elem("a", <<"Download">>, Some(<<"causelist", ".pdf">>))>>)

\* the listing, followed by a link whose href urljoin rejects
PageBadHref ==
    Page(<< >>,
         <<Elem("td", <<"7", " ">> \o CNR, None),
           Elem("a", <<"page">>, Some(<<"next", ".html">>)),
           Elem("a", <<"order">>, Some(<<"//[", "orders", ".PDF">>))>>)

\* a type/number/year listing with a "Serial" label and an absolute link
PageSerial ==
    Page(<< >>,
         <<Elem("td", <<"Serial", ":", " ", "12", " ">> \o TYPE_NO_YEAR, None),
           Elem("strong", T(<<"Sessions", "Court">>), None),
           Elem("a", <<"order">>, Some(<<"https://", "example.org/o", ".pdf">>))>>)

\* a type/number/year listing in table cells: the type, in other letter
\* case, in one cell and the number and year in the next
PageCells ==
    Page(<< >>,
         <<Elem("td", <<"3">>, None),
           Elem("td", <<"Cr">>, None),
           Elem("td", <<"123", " ", "/", " ", "2024">>, None)>>)

\* preformatted text: the listing line, four other lines, and the court's
\* name on the fifth line after the listing
PageFarCourt ==
    Page(<<Form(None, FALSE, FALSE)>>,
         <<Elem("pre", <<"7", ".", " ">> \o CNR
                         \o <<"\n", "Sample", "\n", "vs", "\n", "Demo", "\n", "-", "\n">>
                         \o T(<<"Sessions", "Court">>), None)>>)

\* two headings before the listing and one after it, none naming a court
PageHeadings ==
    Page(<< >>,
         <<Elem("h2", T(<<"Daily", "Board">>), None),
           Elem("strong", T(<<"Room", "B">>), None),
           Elem("p", <<"7", ".", " ">> \o CNR, None),
           Elem("h3", <<"Notes">>, None)>>)

PageBlank == Page(<< >>, << >>)

SearchPages ==
    {PageCaptcha, PageListed, PagePre, PagePdfLink, PageBadHref, PageSerial, PageCells,
     PageFarCourt, PageHeadings, PageBlank}

\* an error page (404) may carry the same content as a listing
PageResponses ==
    {ErrorResp} \cup
    { Resp(200, "text/html", p) : p \in SearchPages } \cup
    { Resp(404, "text/html", p) : p \in {PageListed, PagePdfLink} }

HeadResponses ==
    { ErrorResp,
      Resp(200, "application/pdf", << >>),
      Resp(200, "text/html", << >>),
      Resp(404, "application/pdf", << >>) }

-----------------------------------------------------------------------------
(* The state before any call, and the request log *)

Req(method, url, phase) == [method |-> method, url |-> url, phase |-> phase]

CatalogOps == {"fetch_states", "fetch_districts", "fetch_court_complexes", "fetch_courts"}

\* the threads that may run calls at the same time
Threads == {"t1", "t2"}

\* a thread that runs no call
IdleThread == [fn |-> "idle", call |-> 0, session |-> 0, sent |-> 0, got |-> {}]

Init ==
    /\ op = "idle"
    /\ args = << >>
    /\ pc = "idle"
    /\ idx = 0
    /\ results = << >>
    /\ ret = << >>
    /\ raised = FALSE
    /\ log = << >>
    /\ ajax_nodes = << >>
    /\ html_nodes = << >>
    /\ fallback_called = FALSE
    /\ reached = FALSE
    /\ form_resp = << >>
    /\ produced = << >>
    /\ captcha_warned = FALSE
    /\ cli = << >>
    /\ out = << >>
    /\ exit_code = << >>
    /\ used = {}
    /\ year_padded = FALSE
    /\ dl = << >>
    /\ text_hit = << >>
    /\ probe_hit = << >>
    /\ web = << >>
    /\ heap = << >>
    /\ thr = [t \in Threads |-> IdleThread]
    /\ calls = 0
    /\ wire = << >>

\* entering a top-level function: nothing is left of an earlier call
EnterFrom(f, a, at, c, code, w) ==
    /\ op = "idle"
    /\ op' = f
    /\ args' = a
    /\ pc' = at
    /\ idx' = 1
    /\ results' = IF f = "search" THEN DefaultResults ELSE << >>
    /\ ret' = << >>
    /\ raised' = FALSE
    /\ log' = << >>
    /\ ajax_nodes' = << >>
    /\ html_nodes' = << >>
    /\ fallback_called' = FALSE
    /\ reached' = FALSE
    /\ form_resp' = << >>
    /\ produced' = << >>
    /\ captcha_warned' = FALSE
    /\ cli' = c
    /\ out' = << >>
    /\ exit_code' = code
    /\ used' = {}
    /\ year_padded' \in YearPaddings(a)
    /\ dl' = << >>
    /\ text_hit' = << >>
    /\ probe_hit' = << >>
    /\ web' = w
    /\ UNCHANGED cvars

\* a direct call, outside the web application's routes
Enter(f, a, at, c, code) == EnterFrom(f, a, at, c, code, None)

-----------------------------------------------------------------------------
(* app.py: fetch_states, fetch_districts, fetch_court_complexes, fetch_courts *)

CallFetchStates == Enter("fetch_states", << >>, "html", None, None)

CallFetchDistricts ==
    \E s \in StateCodes : Enter("fetch_districts", [state_code |-> s], "ajax", None, None)

CallFetchCourtComplexes ==
    \E s \in StateCodes, d \in DistrictCodes :
        Enter("fetch_court_complexes", [state_code |-> s, district_code |-> d], "ajax",
              None, None)

CallFetchCourts ==
    \E s \in StateCodes, d \in DistrictCodes, c \in ComplexCodes :
        Enter("fetch_courts",
              [state_code |-> s, district_code |-> d, complex_code |-> c], "ajax",
              None, None)

\* AjaxOutcome with the `return` of line 129 lost: the nodes are built and
\* the loop goes on
AjaxOutcomeNoReturn(level, a, i, r) ==
    LET it == AjaxIteration(r)
    IN  IF it.ctl = "raise"
        THEN [pc |-> "done", idx |-> i, ret |-> get_fallback(level, a),
              raised |-> FALSE, fallback |-> TRUE]
        ELSE IF i < Len(ajax_urls(level))
        THEN [pc |-> "ajax", idx |-> i + 1, ret |-> << >>, raised |-> FALSE,
              fallback |-> FALSE]
        ELSE [pc |-> "html", idx |-> i, ret |-> << >>, raised |-> FALSE,
              fallback |-> FALSE]

\* AjaxOutcome leaving the endpoint loop at the first endpoint without a result
AjaxOutcomeSkipsRest(level, a, i, r) ==
    LET it == AjaxIteration(r)
    IN  CASE it.ctl = "return" ->
               [pc |-> "done", idx |-> i, ret |-> it.nodes, raised |-> FALSE,
                fallback |-> FALSE]
          [] it.ctl = "next" ->
               [pc |-> "html", idx |-> i, ret |-> << >>, raised |-> FALSE,
                fallback |-> FALSE]
          [] OTHER ->
               [pc |-> "done", idx |-> i, ret |-> get_fallback(level, a),
                raised |-> FALSE, fallback |-> TRUE]

\* what the function does after the answer r to the POST to endpoint number i
AjaxOutcome(level, a, i, r) ==
    LET it == AjaxIteration(r)
    IN  CASE it.ctl = "return" ->
               [pc |-> "done", idx |-> i, ret |-> it.nodes, raised |-> FALSE,
                fallback |-> FALSE]
          [] it.ctl = "next" /\ i < Len(ajax_urls(level)) ->
               [pc |-> "ajax", idx |-> i + 1, ret |-> << >>, raised |-> FALSE,
                fallback |-> FALSE]
          [] it.ctl = "next" /\ i >= Len(ajax_urls(level)) ->
               [pc |-> "html", idx |-> i, ret |-> << >>, raised |-> FALSE,
                fallback |-> FALSE]
          [] OTHER ->
               IF OnException("outer") = "return_fallback"
               THEN [pc |-> "done", idx |-> i, ret |-> get_fallback(level, a),
                     raised |-> FALSE, fallback |-> TRUE]
               ELSE [pc |-> "done", idx |-> i, ret |-> << >>, raised |-> TRUE,
                     fallback |-> FALSE]

\* one turn of the endpoint loop: the POST and the handling of its answer
AjaxStep ==
    /\ op \in CatalogOps
    /\ pc = "ajax"
    /\ \E r \in AjaxResponses :
         LET n == AjaxOutcome(op, args, idx, r)
         IN  /\ log' = Append(log, Req("POST", ajax_urls(op)[idx], "ajax"))
             /\ reached' = (reached \/ ~IsError(r))
             /\ pc' = n.pc
             /\ idx' = n.idx
             /\ ret' = n.ret
             /\ raised' = n.raised
             /\ fallback_called' = n.fallback
             /\ ajax_nodes' = IF AjaxIteration(r).ctl = "return"
                              THEN Some(AjaxIteration(r).nodes) ELSE ajax_nodes
             /\ used' = IF AjaxIteration(r).ctl = "return"
                        THEN used \cup {r.status} ELSE used
    /\ UNCHANGED <<op, args, results, html_nodes, form_resp, produced, captcha_warned,
                   cli, out, exit_code, year_padded, dl, cvars, web, text_hit,
                   probe_hit>>

\* HtmlOutcome returning the empty scrape when the GET fails
HtmlOutcomeEmptyOnError(level, a, r) ==
    LET fb == [ret |-> get_fallback(level, a), raised |-> FALSE, fallback |-> TRUE]
    IN  IF IsError(r) THEN [ret |-> << >>, raised |-> FALSE, fallback |-> FALSE]
        ELSE IF level = "fetch_states" /\ r.status # 200 THEN fb
        ELSE LET nodes == HtmlScrape(level, r.body)
             IN  IF nodes # << >>
                 THEN [ret |-> nodes, raised |-> FALSE, fallback |-> FALSE]
                 ELSE fb

\* what the function does after the answer r to the page GET
HtmlOutcome(level, a, r) ==
    LET site == IF level = "fetch_states" THEN "states" ELSE "html"
        fb == [ret |-> get_fallback(level, a), raised |-> FALSE, fallback |-> TRUE]
    IN  IF IsError(r)
        THEN IF OnException(site) \in {"pass", "return_fallback"} THEN fb
             ELSE IF level # "fetch_states" /\ OnException("outer") = "return_fallback"
             THEN fb
             ELSE [ret |-> << >>, raised |-> TRUE, fallback |-> FALSE]
        ELSE IF level = "fetch_states" /\ r.status # 200 THEN fb
        ELSE LET nodes == HtmlScrape(level, r.body)
             IN  IF nodes # << >>
                 THEN [ret |-> nodes, raised |-> FALSE, fallback |-> FALSE]
                 ELSE fb

\* the page GET, the scrape of its answer and, failing that, the fallback
HtmlStep ==
    /\ op \in CatalogOps
    /\ pc = "html"
    /\ \E r \in HtmlResponses :
         LET n == HtmlOutcome(op, args, r)
         IN  /\ log' = Append(log, Req("GET", html_url(op, args), "html"))
             /\ reached' = (reached \/ ~IsError(r))
             /\ pc' = "done"
             /\ ret' = n.ret
             /\ raised' = n.raised
             /\ fallback_called' = n.fallback
             /\ html_nodes' = IF IsError(r) \/ (op = "fetch_states" /\ r.status # 200)
                              THEN html_nodes ELSE Some(HtmlScrape(op, r.body))
             /\ used' = IF n.ret # << >> /\ ~n.fallback
                        THEN used \cup {r.status} ELSE used
    /\ UNCHANGED <<op, args, idx, results, ajax_nodes, form_resp, produced,
                   captcha_warned, cli, out, exit_code, year_padded, dl, cvars, web, text_hit,
                   probe_hit>>

-----------------------------------------------------------------------------
(* app.py: download_cause_list_pdf *)

\* date_obj.strftime("%d-%m-%Y"), in its parts
formatted_date(dt) == <<Pad2(dt.d), "-", Pad2(dt.m), "-", PercentY(dt.y)>>

\* formatted_date.replace('-', '')
WithoutDashes(parts) ==
    LET NotDash(t) == t # "-"
    IN  Str(SelectSeq(parts, NotDash))

\* lines 415-419: the three URLs tried for a court and a date
download_pdf_urls(a, dt) ==
    LET q == "?state=" \o a.state_code \o "&district=" \o a.district_code
             \o "&complex=" \o a.complex_code \o "&court=" \o a.court_code
             \o "&date=" \o Str(formatted_date(dt))
    IN  << ECOURTS_BASE \o "causelist_pdf.php" \o q,
           ECOURTS_BASE \o "generate_causelist.php" \o q,
           ECOURTS_BASE \o "pdf/causelist_" \o a.state_code \o "_" \o a.district_code
               \o "_" \o a.complex_code \o "_" \o a.court_code \o "_"
               \o WithoutDashes(formatted_date(dt)) \o ".pdf" >>

\* the date strings the download is asked for
DateStrings ==
    { <<"2024", "-", "10", "-", "20">>,
      <<"0999", "-", "01", "-", "05">>,
      <<"20", "-", "10", "-", "2024">> }

\* what the site may answer to the GET of a PDF URL
PdfResponses ==
    { ErrorResp,
      Resp(200, "application/pdf", <<"%PDF">>),
      Resp(200, "text/html", <<"login">>),
      Resp(500, "application/pdf", <<"%PDF">>) }

\* the call: a date string that does not parse raises ValueError at line
\* 411, which the outer except turns into None before any request
CallDownloadCauseListPdf ==
    \E ds \in DateStrings :
        Enter("download_cause_list_pdf",
              [state_code |-> "MH", district_code |-> "MH01",
               complex_code |-> "MH01C01", court_code |-> "CT01", date_str |-> ds],
              IF IsNone(strptime(ds)) THEN "done" ELSE "get", None, None)

\* lines 421-428: what follows the answer r to the GET of URL number i
DownloadOutcome(r, i, n_urls) ==
    IF ~IsError(r) /\ r.status = 200 /\ IsPdfType(r.ctype)
    THEN [pc |-> "done", idx |-> i, ret |-> Some(r.body)]
    ELSE IF i < n_urls THEN [pc |-> "get", idx |-> i + 1, ret |-> None]
    ELSE [pc |-> "done", idx |-> i, ret |-> None]

\* one turn of `for pdf_url in pdf_urls`
DownloadStep ==
    /\ op = "download_cause_list_pdf"
    /\ pc = "get"
    /\ \E r \in PdfResponses :
         LET urls == download_pdf_urls(args, Val(strptime(args.date_str)))
             n == DownloadOutcome(r, idx, Len(urls))
         IN  /\ log' = Append(log, Req("GET", urls[idx], "pdf_get"))
             /\ reached' = (reached \/ ~IsError(r))
             /\ pc' = n.pc
             /\ idx' = n.idx
             /\ ret' = n.ret
             /\ used' = IF ~IsNone(n.ret) THEN used \cup {r.status} ELSE used
    /\ UNCHANGED <<op, args, results, raised, ajax_nodes, html_nodes, fallback_called,
                   form_resp, produced, captcha_warned, cli, out, exit_code,
                   year_padded, dl, cvars, web, text_hit,
                   probe_hit>>

-----------------------------------------------------------------------------
(* scraper.py: search_cause_list_for_case *)

CallSearch ==
    \E id \in Identifiers, dt \in Dates :
        Enter("search", [case_identifier |-> id, check_date |-> dt], "form",
              None, None)

\* the first time a strategy produces found = True or a document link
Produce(by, at, res) ==
    IF produced = << >> /\ (res.found \/ ~IsNone(res.case_pdf))
    THEN Some([by |-> by, at |-> at, results |-> res])
    ELSE produced

\* FormOutcome without the `if ecourts_results.get("found")` of line 247
FormOutcomeIgnoresMatch(e) ==
    IF e.ctl = "raise" THEN [pc |-> "done", ret |-> << >>, raised |-> TRUE]
    ELSE [pc |-> "text", ret |-> << >>, raised |-> FALSE]

\* FormOutcome ending the chain when the form shows a CAPTCHA
FormOutcomeCaptchaEnds(e) ==
    IF e.ctl = "raise" THEN [pc |-> "done", ret |-> << >>, raised |-> TRUE]
    ELSE IF e.results.found \/ e.captcha
    THEN [pc |-> "done", ret |-> e.results, raised |-> FALSE]
    ELSE [pc |-> "text", ret |-> << >>, raised |-> FALSE]

\* a form-page result that is returned as soon as it carries a document link
FormOutcomeKeepsLink(e) ==
    CASE e.ctl = "raise" ->
           [pc |-> "done", ret |-> << >>, raised |-> TRUE]
      [] e.ctl = "return" /\ (e.results.found \/ ~IsNone(e.results.case_pdf)) ->
           [pc |-> "done", ret |-> e.results, raised |-> FALSE]
      [] OTHER ->
           [pc |-> "text", ret |-> << >>, raised |-> FALSE]

\* lines 246-248: what follows the outcome e of search_ecourts_cause_list
FormOutcome(e) ==
    CASE e.ctl = "raise" ->
           [pc |-> "done", ret |-> << >>, raised |-> TRUE]
      [] e.ctl = "return" /\ e.results.found ->
           [pc |-> "done", ret |-> e.results, raised |-> FALSE]
      [] OTHER ->
           [pc |-> "text", ret |-> << >>, raised |-> FALSE]

\* Strategy 1: the form-page GET inside search_ecourts_cause_list
FormStep ==
    /\ op = "search"
    /\ pc = "form"
    /\ \E r \in PageResponses :
         LET e == search_ecourts_cause_list(args.case_identifier, r)
             n == FormOutcome(e)
         IN  /\ log' = Append(log, Req("GET", CAUSE_LIST_URL, "form"))
             /\ reached' = (reached \/ ~IsError(r))
             /\ form_resp' = Some(r)
             /\ captcha_warned' = e.captcha
             /\ produced' = Produce("form", Len(log) + 1, e.results)
             /\ used' = IF e.results # DefaultResults
                        THEN used \cup {r.status} ELSE used
             /\ pc' = n.pc
             /\ ret' = n.ret
             /\ raised' = n.raised
    /\ UNCHANGED <<op, args, idx, results, ajax_nodes, html_nodes, fallback_called,
                   cli, out, exit_code, year_padded, dl, cvars, web, text_hit,
                   probe_hit>>

\* TextOutcome fetching a candidate that gave nothing once more before it
\* moves on
TextOutcomeRetries(t, i, n_urls) ==
        CASE t.ctl = "raise" ->
               [pc |-> "done", idx |-> i, results |-> t.results, ret |-> << >>,
                raised |-> TRUE]
          [] t.ctl = "return" ->
               [pc |-> "done", idx |-> i, results |-> t.results, ret |-> t.results,
                raised |-> FALSE]
          [] t.ctl = "continue" /\ i < n_urls /\ log # << >>
                /\ log[Len(log)].url # possible_urls(args.check_date)[i] ->
               [pc |-> "text", idx |-> i, results |-> t.results, ret |-> << >>,
                raised |-> FALSE]
          [] t.ctl = "continue" /\ i < n_urls ->
               [pc |-> "text", idx |-> i + 1, results |-> t.results, ret |-> << >>,
                raised |-> FALSE]
          [] OTHER ->
               [pc |-> "pdf", idx |-> 1, results |-> t.results, ret |-> << >>,
                raised |-> FALSE]

\* lines 251-286: what follows the outcome t of the turn for candidate
\* number i of n_urls
TextOutcome(t, i, n_urls) ==
        CASE t.ctl = "raise" ->
               [pc |-> "done", idx |-> i, results |-> t.results, ret |-> << >>,
                raised |-> TRUE]
          [] t.ctl = "return" ->
               [pc |-> "done", idx |-> i, results |-> t.results, ret |-> t.results,
                raised |-> FALSE]
          [] t.ctl = "continue" /\ i < n_urls ->
               [pc |-> "text", idx |-> i + 1, results |-> t.results, ret |-> << >>,
                raised |-> FALSE]
          [] OTHER ->
               [pc |-> "pdf", idx |-> 1, results |-> t.results, ret |-> << >>,
                raised |-> FALSE]

\* Strategy 2: the GET of one candidate URL and the search of its page
TextStep ==
    /\ op = "search"
    /\ pc = "text"
    /\ \E r \in PageResponses :
         LET urls == possible_urls(args.check_date)
             t == TextIteration(args.case_identifier, results, r)
             n == TextOutcome(t, idx, Len(urls))
         IN  /\ log' = Append(log, Req("GET", urls[idx], "text"))
             /\ reached' = (reached \/ ~IsError(r))
             /\ produced' = IF t.matched
                            THEN Produce("text", Len(log) + 1, t.results)
                            ELSE produced
             /\ text_hit' = IF IsNone(text_hit) /\ ~IsError(r) /\ r.status = 200
                                 /\ ContainsCI(GetText(r.body.elems),
                                               args.case_identifier)
                              THEN Some(r.body) ELSE text_hit
             /\ used' = IF t.results # results
                        THEN used \cup {r.status} ELSE used
             /\ pc' = n.pc
             /\ idx' = n.idx
             /\ results' = n.results
             /\ ret' = n.ret
             /\ raised' = n.raised
    /\ UNCHANGED <<op, args, ajax_nodes, html_nodes, fallback_called, form_resp,
                   captcha_warned, cli, out, exit_code, year_padded, dl, cvars, web, probe_hit>>

\* lines 303-315: what follows the outcome h of the probe of candidate
\* number i of n_urls
HeadOutcome(h, i, n_urls) ==
        CASE h.ctl = "raise" ->
               [pc |-> "done", idx |-> i, results |-> h.results, ret |-> << >>,
                raised |-> TRUE]
          [] h.ctl = "return" ->
               [pc |-> "done", idx |-> i, results |-> h.results, ret |-> h.results,
                raised |-> FALSE]
          [] h.ctl = "continue" /\ i < n_urls ->
               [pc |-> "pdf", idx |-> i + 1, results |-> h.results, ret |-> << >>,
                raised |-> FALSE]
          [] OTHER ->
               [pc |-> "done", idx |-> i, results |-> h.results, ret |-> h.results,
                raised |-> FALSE]

\* Strategy 3: the HEAD of one PDF candidate
HeadStep ==
    /\ op = "search"
    /\ pc = "pdf"
    /\ \E r \in HeadResponses :
         LET urls == pdf_urls(args.check_date)
             h == HeadIteration(results, urls[idx], r)
             n == HeadOutcome(h, idx, Len(urls))
         IN  /\ log' = Append(log, Req("HEAD", urls[idx], "pdf"))
             /\ reached' = (reached \/ ~IsError(r))
             /\ produced' = IF h.ctl = "return"
                            THEN Produce("pdf", Len(log) + 1, h.results)
                            ELSE produced
             /\ probe_hit' = IF IsNone(probe_hit) /\ ~IsError(r) /\ r.status = 200
                                  /\ IsPdfType(r.ctype)
                               THEN Some(urls[idx]) ELSE probe_hit
             /\ used' = IF h.results # results
                        THEN used \cup {r.status} ELSE used
             /\ pc' = n.pc
             /\ idx' = n.idx
             /\ results' = n.results
             /\ ret' = n.ret
             /\ raised' = n.raised
    /\ UNCHANGED <<op, args, ajax_nodes, html_nodes, fallback_called, form_resp,
                   captcha_warned, cli, out, exit_code, year_padded, dl, cvars, web, text_hit>>

-----------------------------------------------------------------------------
(* scraper.py: date_for, try_download, download_and_search_pdf, main *)

OUT_DIR == "outputs"
CAUSE_DIR == OUT_DIR \o "/" \o "causelists"
CASE_DIR == OUT_DIR \o "/" \o "cases"

\* truth value of an optional string argument / an optional int argument
TruthyStr(x) == ~IsNone(x) /\ Val(x) # << >>
TruthyInt(x) == ~IsNone(x) /\ Val(x) # 0

\* date_for, with today the date of the clock; None stands for ValueError
date_for(flag_today, flag_tomorrow, explicit_date, today) ==
    IF TruthyStr(explicit_date) THEN strptime(Val(explicit_date))
    ELSE IF flag_tomorrow THEN Some(NextDay(today))
    ELSE Some(today)

\* Response.raise_for_status raises for the statuses 400..599 and for no other
raise_for_status(r) == r.status >= 400 /\ r.status <= 599

\* try_download: session.get with stream = True, raise_for_status, open of
\* dest_path for writing (the file is created or emptied), one write per
\* chunk, return True; any exception on the way gives return False.
\* r is the answer of the GET, open_ok tells whether open succeeded, fail_at
\* is None when the stream delivered every chunk and Some(k) when it raised
\* after k chunks; before is the file at dest_path before the call (None:
\* no file). The result holds the value returned and the file afterwards.
try_download(r, open_ok, fail_at, before) ==
    IF IsError(r) \/ raise_for_status(r)
    THEN [returned |-> FALSE, after |-> before]
    ELSE IF ~open_ok
    THEN [returned |-> FALSE, after |-> before]
    ELSE IF IsNone(fail_at)
    THEN [returned |-> TRUE, after |-> Some(r.body)]
    ELSE [returned |-> FALSE, after |-> Some(SubSeq(r.body, 1, Val(fail_at)))]

\* download_and_search_pdf: dest is the folder joined with the name taken
\* from pdf_url; it is returned when try_download returned True, None otherwise
download_and_search_pdf(pdf_url, dest_folder, r, open_ok, fail_at, before) ==
    LET dest == [folder |-> dest_folder, name_of |-> pdf_url]
        t == try_download(r, open_ok, fail_at, before)
    IN  [dest |-> dest, ok |-> t.returned, after |-> t.after,
         returned |-> IF t.returned THEN Some(dest) ELSE None]

\* the parsed command line (argparse: an absent option is None or False)
Argv(cnr, type, number, year, date, today, tomorrow, causelist, download_pdf) ==
    [cnr |-> cnr, type |-> type, number |-> number, year |-> year, date |-> date,
     today |-> today, tomorrow |-> tomorrow, causelist |-> causelist,
     download_pdf |-> download_pdf]

D_2024_10_20 == Some(<<"2024", "-", "10", "-", "20">>)

CliArgs ==
    { Argv(Some(CNR), None, None, None, D_2024_10_20, FALSE, FALSE, FALSE, FALSE),
      Argv(Some(<<" ">> \o CNR), None, None, None, D_2024_10_20, FALSE, FALSE, FALSE, TRUE),
      Argv(Some(CNR), None, None, None, None, TRUE, FALSE, FALSE, FALSE),
      Argv(Some(CNR), None, None, None, Some(<<"0999", "-", "01", "-", "05">>),
           FALSE, FALSE, FALSE, FALSE),
      Argv(Some(CNR), None, None, None, Some(<<"20", "-", "10", "-", "2024">>),
           FALSE, FALSE, FALSE, FALSE),
      Argv(Some(CNR), None, None, None, Some(<<"2024", "-", "02", "-", "30">>),
           FALSE, FALSE, FALSE, FALSE),
      Argv(None, Some(<<"CR">>), Some(123), Some(2024), None, FALSE, TRUE, FALSE, FALSE),
      Argv(None, Some(<<"CR">>), Some(0), Some(2024), D_2024_10_20, FALSE, FALSE, FALSE, FALSE),
      Argv(None, Some(<<"CR">>), Some(123), Some(1900), D_2024_10_20, FALSE, FALSE, FALSE, FALSE),
      Argv(None, Some(<<"CR">>), Some(123), None, D_2024_10_20, FALSE, FALSE, FALSE, FALSE),
      Argv(None, None, None, None, None, TRUE, FALSE, FALSE, FALSE),
      Argv(None, None, None, None, D_2024_10_20, FALSE, FALSE, TRUE, FALSE),
      Argv(None, None, None, None, D_2024_10_20, FALSE, FALSE, TRUE, TRUE) }

\* main_prepare with the validation of lines 367-373 printing its message and
\* returning 0
main_prepare_returns_zero(a, today) ==
    LET triple == TruthyStr(a.type) /\ TruthyInt(a.number) /\ TruthyInt(a.year)
        case_identifier ==
            IF TruthyStr(a.cnr) THEN Some(Strip(Val(a.cnr)))
            ELSE IF triple
            THEN Some(Strip(Val(a.type)) \o <<" ", ToString(Val(a.number)), " ",
                                              "/", " ", ToString(Val(a.year))>>)
            ELSE None
        check_date == date_for(a.today, a.tomorrow, a.date, today)
        failed == [returned |-> Some(1), case_identifier |-> None, check_date |-> None]
    IN  IF ~(TruthyStr(a.cnr) \/ triple \/ a.causelist)
        THEN [failed EXCEPT !.returned = Some(0)]
        ELSE IF TruthyInt(a.year)
                /\ (Val(a.year) < 1950 \/ Val(a.year) > today.y + 1) THEN failed
        ELSE IF IsNone(check_date) THEN failed
        ELSE [returned |-> None, case_identifier |-> case_identifier,
              check_date |-> check_date]

\* lines 367-397 of main: the early return 1, or the identifier and the date
main_prepare(a, today) ==
    LET triple == TruthyStr(a.type) /\ TruthyInt(a.number) /\ TruthyInt(a.year)
        case_identifier ==
            IF TruthyStr(a.cnr) THEN Some(Strip(Val(a.cnr)))
            ELSE IF triple
            THEN Some(Strip(Val(a.type)) \o <<" ", ToString(Val(a.number)), " ",
                                              "/", " ", ToString(Val(a.year))>>)
            ELSE None
        check_date == date_for(a.today, a.tomorrow, a.date, today)
        failed == [returned |-> Some(1), case_identifier |-> None, check_date |-> None]
    IN  IF ~(TruthyStr(a.cnr) \/ triple \/ a.causelist) THEN failed
        ELSE IF TruthyInt(a.year)
                /\ (Val(a.year) < 1950 \/ Val(a.year) > today.y + 1) THEN failed
        ELSE IF IsNone(check_date) THEN failed
        ELSE [returned |-> None, case_identifier |-> case_identifier,
              check_date |-> check_date]

\* line 400
safe_identifier(case_identifier) ==
    LET t == IF IsNone(case_identifier) \/ Val(case_identifier) = << >>
             THEN <<"causelist">> ELSE Val(case_identifier)
    IN  Str([i \in DOMAIN t |-> IF t[i] \in {" ", "/"} THEN "_" ELSE t[i]])

\* line 401; str(check_date) is the ISO form
output_filename(case_identifier, check_date) ==
    OUT_DIR \o "/" \o "result_" \o safe_identifier(case_identifier) \o "_"
            \o isoformat(check_date) \o ".json"

CAUSELIST_NOTE ==
    "No direct PDF link discovered automatically. The eCourts website structure may have changed."
NOT_FOUND_NOTE ==
    "Case not found with current heuristics. The eCourts website may have changed or case may not be listed."

\* lines 412-434: the object saved in cause-list mode (the clock's timestamp
\* left out)
causelist_output(check_date, res, download_pdf, saved) ==
    LET base == [query |-> [causelist_for |-> isoformat(check_date)],
                 found_causelist_pdf |-> ~IsNone(res.case_pdf),
                 causelist_pdf |-> res.case_pdf]
    IN  IF ~IsNone(res.case_pdf)
        THEN IF download_pdf /\ ~IsNone(saved)
             THEN ("saved_file" :> Val(saved)) @@ base
             ELSE base
        ELSE ("note" :> CAUSELIST_NOTE) @@ base

\* an output that carries the document link whether the case was found or not
case_output_any_link(case_identifier, check_date, res, download_pdf, saved) ==
    LET base == [query |-> [case_identifier |-> case_identifier,
                            date_checked |-> isoformat(check_date)],
                 listed |-> res.found]
        hit == [serial_number |-> res.serial_number, court_name |-> res.court_name,
                matched_line |-> res.matched_line] @@ base
        noted == ("note" :> NOT_FOUND_NOTE) @@ base
    IN  IF ~IsNone(res.case_pdf)
        THEN ("case_pdf_link" :> Val(res.case_pdf)) @@ (IF res.found THEN hit ELSE noted)
        ELSE IF res.found THEN hit ELSE noted

\* lines 443-482: the object saved by a case lookup (the clock's timestamp
\* left out)
case_output(case_identifier, check_date, res, download_pdf, saved) ==
    LET base == [query |-> [case_identifier |-> case_identifier,
                            date_checked |-> isoformat(check_date)],
                 listed |-> res.found]
        hit == [serial_number |-> res.serial_number, court_name |-> res.court_name,
                matched_line |-> res.matched_line] @@ base
        link == IF ~IsNone(res.case_pdf)
                THEN ("case_pdf_link" :> Val(res.case_pdf)) @@ hit ELSE hit
    IN  IF res.found
        THEN IF ~IsNone(res.case_pdf) /\ download_pdf /\ ~IsNone(saved)
             THEN ("case_pdf_saved" :> Val(saved)) @@ link
             ELSE link
        ELSE ("note" :> NOT_FOUND_NOTE) @@ base

\* the answers to the GET of the document: no answer, a client error, a
\* status of the 3xx class that requests does not follow (no Location), the
\* document in two chunks
DownloadResponses ==
    { ErrorResp, Resp(404, "text/html", <<"nf">>), Resp(304, "text/html", << >>),
      Resp(200, "application/pdf", <<"c1", "c2">>) }

\* the file at the destination before the download: none, or an older one
FilesBefore == { None, Some(<<"old">>) }

\* main up to the call of search_cause_list_for_case, or to its return 1
MainStart ==
    /\ op = "idle"
    /\ \E a \in CliArgs, today \in Dates :
        LET p == main_prepare(a, today)
            c == [argv |-> a, case_identifier |-> p.case_identifier,
                  check_date |-> p.check_date]
        IN  IF IsNone(p.returned)
            THEN Enter("search",
                       [case_identifier |-> IF a.causelist THEN << >>
                                            ELSE Val(p.case_identifier),
                        check_date |-> Val(p.check_date)],
                       "form", Some(c), None)
            ELSE Enter("main", << >>, "exited", Some(c), p.returned)

\* main 423-427 and 468-472: the document is downloaded when --download-pdf
\* was given, a link was found and (case search) the case was found
DownloadWanted ==
    /\ ~IsNone(cli)
    /\ ~raised
    /\ Val(cli).argv.download_pdf
    /\ ~IsNone(ret.case_pdf)
    /\ (Val(cli).argv.causelist \/ ret.found)

\* the call of download_and_search_pdf by main
MainDownload ==
    /\ op = "search"
    /\ pc = "done"
    /\ DownloadWanted
    /\ \E r \in DownloadResponses, open_ok \in BOOLEAN, before \in FilesBefore :
         \E fail_at \in {None} \cup (IF IsError(r) THEN {}
                                     ELSE {Some(k) : k \in 0..Len(r.body)}) :
           LET d == download_and_search_pdf(Val(ret.case_pdf),
                        IF Val(cli).argv.causelist THEN CAUSE_DIR ELSE CASE_DIR,
                        r, open_ok, fail_at, before)
           IN  /\ dl' = Some([url |-> Val(ret.case_pdf), resp |-> r,
                              open_ok |-> open_ok, fail_at |-> fail_at,
                              before |-> before, dest |-> d.dest, ok |-> d.ok,
                              after |-> d.after, returned |-> d.returned])
               /\ log' = Append(log, Req("GET", Val(ret.case_pdf), "download"))
               /\ reached' = (reached \/ ~IsError(r))
    /\ pc' = "downloaded"
    /\ UNCHANGED <<op, args, idx, results, ret, raised, ajax_nodes, html_nodes,
                   fallback_called, form_resp, produced, captcha_warned, cli, out,
                   exit_code, used, year_padded, cvars, web, text_hit,
                   probe_hit>>

\* main after the search and the download: save_json, return 0 (return 1
\* when the search raised)
MainFinish ==
    /\ op = "search"
    /\ ~IsNone(cli)
    /\ \/ pc = "done" /\ ~DownloadWanted
       \/ pc = "downloaded"
    /\ LET c == Val(cli)
           a == c.argv
           saved == IF IsNone(dl) THEN None ELSE Val(dl).returned
           json == IF a.causelist
                   THEN causelist_output(Val(c.check_date), ret, a.download_pdf, saved)
                   ELSE case_output(c.case_identifier, Val(c.check_date), ret,
                                    a.download_pdf, saved)
       IN  /\ out' = IF raised THEN None
                     ELSE Some([file |-> output_filename(c.case_identifier,
                                                         Val(c.check_date)),
                                json |-> json])
           /\ exit_code' = IF raised THEN Some(1) ELSE Some(0)
    /\ pc' = "exited"
    /\ UNCHANGED <<op, args, idx, results, ret, raised, log, ajax_nodes, html_nodes,
                   fallback_called, reached, form_resp, produced, captcha_warned,
                   cli, used, year_padded, dl, cvars, web, text_hit,
                   probe_hit>>

\* the caller takes the result; the call leaves nothing behind
Return ==
    /\ \/ pc = "done" /\ IsNone(cli) /\ IsNone(web)
       \/ pc = "exited"
    /\ op' = "idle"
    /\ args' = << >>
    /\ pc' = "idle"
    /\ idx' = 0
    /\ results' = << >>
    /\ ret' = << >>
    /\ raised' = FALSE
    /\ log' = << >>
    /\ ajax_nodes' = << >>
    /\ html_nodes' = << >>
    /\ fallback_called' = FALSE
    /\ reached' = FALSE
    /\ form_resp' = << >>
    /\ produced' = << >>
    /\ captcha_warned' = FALSE
    /\ cli' = << >>
    /\ out' = << >>
    /\ exit_code' = << >>
    /\ used' = {}
    /\ year_padded' = FALSE
    /\ dl' = << >>
    /\ text_hit' = << >>
    /\ probe_hit' = << >>
    /\ web' = << >>
    /\ UNCHANGED cvars

-----------------------------------------------------------------------------
(* app.py: the route /api/download_complex *)

\* the JSON bodies posted to the route: all parameters, no date, a date that
\* does not parse
ApiData ==
    { [state_code |-> Some("MH"), district_code |-> Some("MH01"),
       complex_code |-> Some("MH01C01"), date |-> ds] :
          ds \in { Some(<<"2024", "-", "10", "-", "20">>),
                   Some(<<"20", "-", "10", "-", "2024">>),
                   Some(<< >>), None } }

\* `not all([state_code, district_code, complex_code, date_str])`
MissingParameter(data) ==
    \/ IsNone(data.state_code) \/ Val(data.state_code) = ""
    \/ IsNone(data.district_code) \/ Val(data.district_code) = ""
    \/ IsNone(data.complex_code) \/ Val(data.complex_code) = ""
    \/ ~TruthyStr(data.date)

\* what the site may answer to the GET of a court's PDF URL: the answers of
\* PdfResponses and a PDF answer without a body
ApiPdfResponses == PdfResponses \cup { Resp(200, "application/pdf", << >>) }

\* lines 421-428: the loop over the URLs from URL number i on, rs[i] being the
\* answer to URL number i
RECURSIVE DownloadFrom(_, _)
DownloadFrom(rs, i) ==
    LET n == DownloadOutcome(rs[i], i, Len(rs))
    IN  IF n.pc = "done" THEN n.ret ELSE DownloadFrom(rs, n.idx)

\* download_cause_list_pdf: the content returned, None when the date does
\* not parse (ValueError, caught at line 430) or no URL gave a PDF
download_cause_list_pdf(date_str, rs) ==
    IF IsNone(strptime(date_str)) THEN None ELSE DownloadFrom(rs, 1)

\* `if pdf_content:`
TruthyContent(c) == ~IsNone(c) /\ Val(c) # << >>

JsonError(status, message) ==
    [status |-> status, json |-> [error |-> message]]

\* the route's state: the zip buffer, downloaded_count, the number of courts
\* whose download returned content, the answer and the file written
Serving(data) ==
    [data |-> data, zip |-> << >>, downloaded_count |-> 0, got |-> 0,
     reply |-> None, file |-> None]

\* lines 495-509: the parameters are read and, when none is missing,
\* fetch_courts is called
ApiStart ==
    \E data \in ApiData :
        IF MissingParameter(data)
        THEN EnterFrom("api_download_complex", << >>, "exited", None, None,
                       Some([Serving(data) EXCEPT
                               !.reply = Some(JsonError(400,
                                              "Missing required parameters"))]))
        ELSE EnterFrom("fetch_courts",
                       [state_code |-> Val(data.state_code),
                        district_code |-> Val(data.district_code),
                        complex_code |-> Val(data.complex_code)],
                       "ajax", None, None, Some(Serving(data)))

\* fetch_courts has returned to the route, which has not answered yet
InRoute ==
    /\ op = "fetch_courts"
    /\ ~IsNone(web)
    /\ pc \in {"done", "zip"}

\* the court of the next turn of `for court in courts`
NextCourt == IF pc = "done" THEN 1 ELSE idx

\* lines 518-527, one turn of `for court in courts`: the PDF is asked for and
\* added to the zip under a name built from the court's label; a label that
\* is no string has no .replace (AttributeError, answered with status 500)
ApiCourt ==
    /\ InRoute
    /\ ~raised
    /\ NextCourt <= Len(ret)
    /\ \E rs \in [1..3 -> ApiPdfResponses] :
         LET w == Val(web)
             court == ret[NextCourt]
             pdf_content == download_cause_list_pdf(Val(w.data.date), rs)
         IN  IF ~TruthyContent(pdf_content)
             THEN /\ web' = web
                  /\ pc' = "zip"
             ELSE IF court.text = JSON_NULL
             THEN /\ web' = Some([w EXCEPT
                                    !.got = w.got + 1,
                                    !.reply = Some(JsonError(500,
                                                   "Internal Server Error"))])
                  /\ pc' = "exited"
             ELSE /\ web' = Some([w EXCEPT
                                    !.got = w.got + 1,
                                    !.downloaded_count = w.downloaded_count + 1,
                                    !.zip = Append(w.zip,
                                               [court_name |-> court.text,
                                                date |-> Val(w.data.date),
                                                content |-> Val(pdf_content)])])
                  /\ pc' = "zip"
    /\ idx' = NextCourt + 1
    /\ UNCHANGED <<op, args, results, ret, raised, log, ajax_nodes, html_nodes,
                   fallback_called, reached, form_resp, produced, captcha_warned,
                   cli, out, exit_code, year_padded, used, dl, text_hit, probe_hit,
                   cvars>>

\* lines 511-512 and 529-542: the answer of the route, and the zip file it
\* writes when a PDF was added
ApiReply ==
    /\ InRoute
    /\ raised \/ NextCourt > Len(ret)
    /\ LET w == Val(web)
           zip_filename == [complex |-> args.complex_code, date |-> Val(w.data.date)]
       IN  web' = Some(
             IF raised
             THEN [w EXCEPT !.reply = Some(JsonError(500, "Internal Server Error"))]
             ELSE IF ret = << >>
             THEN [w EXCEPT !.reply = Some(JsonError(404, "No courts found in complex"))]
             ELSE IF w.downloaded_count > 0
             THEN [w EXCEPT
                     !.file = Some([name |-> zip_filename, entries |-> w.zip]),
                     !.reply = Some([status |-> 200,
                                     json |-> [success |-> TRUE,
                                               filename |-> zip_filename,
                                               courts_downloaded |-> w.downloaded_count,
                                               total_courts |-> Len(ret)]])]
             ELSE [w EXCEPT !.reply = Some(JsonError(404,
                                           "No cause lists could be downloaded"))])
    /\ pc' = "exited"
    /\ UNCHANGED <<op, args, idx, results, ret, raised, log, ajax_nodes, html_nodes,
                   fallback_called, reached, form_resp, produced, captcha_warned,
                   cli, out, exit_code, year_padded, used, dl, text_hit, probe_hit,
                   cvars>>

\* the requests served by the route
ApiNext ==
    \/ ApiStart
    \/ AjaxStep
    \/ HtmlStep
    \/ ApiCourt
    \/ ApiReply
    \/ Return

SpecApi == Init /\ [][ApiNext]_vars

Next ==
    \/ CallFetchStates
    \/ CallFetchDistricts
    \/ CallFetchCourtComplexes
    \/ CallFetchCourts
    \/ AjaxStep
    \/ HtmlStep
    \/ CallDownloadCauseListPdf
    \/ DownloadStep
    \/ CallSearch
    \/ FormStep
    \/ TextStep
    \/ HeadStep
    \/ MainStart
    \/ MainDownload
    \/ MainFinish
    \/ Return

Spec == Init /\ [][Next]_vars

-----------------------------------------------------------------------------
(* Calls running in threads: the session of each call *)

MaxCalls == 2
MaxRequests == 2

\* the functions that create a session and send their requests through it
SessionFunctions ==
    {"fetch_states", "fetch_districts", "fetch_court_complexes", "fetch_courts",
     "search_cause_list_for_case"}

\* the most requests a call of fn sends: the page; the endpoints and the
\* page; the form page, the candidates and the probes
RequestsOf(fn) ==
    LET d == [y |-> 2024, m |-> 10, d |-> 20]
        n == CASE fn = "fetch_states" -> 1
               [] fn = "search_cause_list_for_case" ->
                    1 + Len(possible_urls(d)) + Len(base_attempts) * Len(pdf_name_candidates(d))
               [] OTHER -> Len(ajax_urls(fn)) + 1
    IN  IF n < MaxRequests THEN n ELSE MaxRequests

\* create_session returning one session kept at module level
create_session_shared(h, c) ==
    IF h = << >>
    THEN [heap |-> <<[made_in |-> c, users |-> {}, cookies |-> {}]>>, session |-> 1]
    ELSE [heap |-> h, session |-> 1]

\* create_session, called by call c: requests.Session() is a new object with
\* an empty cookie jar; the headers are copied into it from HEADERS.
\* made_in and users record the call that created the object and the calls
\* that sent a request through it
create_session(h, c) ==
    [heap |-> Append(h, [made_in |-> c, users |-> {}, cookies |-> {}]),
     session |-> Len(h) + 1]

\* a thread enters one of the functions: its first statement creates the
\* session and binds it to the local variable `session`
ThreadCall(t) ==
    /\ thr[t].fn = "idle"
    /\ calls < MaxCalls
    /\ \E f \in SessionFunctions :
         LET c == calls + 1
             s == create_session(heap, c)
         IN  /\ heap' = s.heap
             /\ thr' = [thr EXCEPT ![t] = [fn |-> f, call |-> c, session |-> s.session,
                                           sent |-> 0, got |-> {}]]
             /\ calls' = c
    /\ UNCHANGED <<wire, callvars>>

\* session.get / session.post / session.head of the thread's call: the
\* request carries the cookies of the session, and the answer may set one.
\* got holds the cookies the answers to this call have set
ThreadRequest(t) ==
    /\ thr[t].fn # "idle"
    /\ thr[t].sent < RequestsOf(thr[t].fn)
    /\ \E set_cookie \in BOOLEAN :
         LET s == thr[t].session
             k == thr[t].sent + 1
             cookie == <<thr[t].call, k>>
         IN  /\ wire' = Some([call |-> thr[t].call, k |-> k, session |-> s,
                              cookies |-> heap[s].cookies, own |-> thr[t].got])
             /\ heap' = [heap EXCEPT
                            ![s].users = @ \cup {thr[t].call},
                            ![s].cookies = IF set_cookie THEN @ \cup {cookie} ELSE @]
             /\ thr' = [thr EXCEPT ![t].sent = k,
                                   ![t].got = IF set_cookie THEN @ \cup {cookie} ELSE @]
    /\ UNCHANGED <<calls, callvars>>

\* the call returns; its local `session` goes out of scope
ThreadReturn(t) ==
    /\ thr[t].fn # "idle"
    /\ thr[t].sent >= 1
    /\ thr' = [thr EXCEPT ![t] = IdleThread]
    /\ UNCHANGED <<heap, calls, wire, callvars>>

ThreadsNext ==
    \/ \E t \in Threads : ThreadCall(t)
    \/ \E t \in Threads : ThreadRequest(t)
    \/ \E t \in Threads : ThreadReturn(t)

SpecThreads == Init /\ [][ThreadsNext]_vars

-----------------------------------------------------------------------------
(* Properties *)

Done == pc = "done" /\ ~raised
CatalogDone == op \in CatalogOps /\ Done
SearchDone == op = "search" /\ Done

\* C1: at every level, whatever the upstream answers, the resolver returns a
\* non-empty list of nodes.
C1_ResolverNeverEmpty == CatalogDone => ret # << >>

\* C2: in every result search_cause_list_for_case returns, found = true
\* implies that matched_line is not null.
C2_FoundHasMatchedLine == SearchDone => (ret.found => ~IsNone(ret.matched_line))

\* a TEXT_SEARCH match was returned
C2_Witness ==
    /\ SearchDone
    /\ ret.found
    /\ ~IsNone(produced) /\ Val(produced).by = "text"

ResultFields == {"found", "serial_number", "court_name", "case_pdf", "matched_line"}

\* C3: no top-level operation lets an exception out: every call ends by
\* returning a structured result (a result dict, or a list of value/text nodes).
C3_NeverRaises ==
    /\ ~raised
    /\ pc = "done" /\ op = "search" => DOMAIN ret = ResultFields
    /\ pc = "done" /\ op \in CatalogOps =>
           \A i \in 1..Len(ret) : DOMAIN ret[i] = {"value", "text"}

\* a search ended although a page's link made urljoin raise after a failed
\* form-page request
C3_Witness ==
    /\ pc = "done" /\ op = "search"
    /\ form_resp = Some(ErrorResp)
    /\ ret.found /\ IsNone(ret.case_pdf)
    /\ Len(log) > 2

\* C4: once a strategy has produced found = true or a document link, no later
\* request is issued and the returned result carries what was produced.
C4_FirstProducerWins ==
    (op = "search" /\ ~IsNone(produced)) =>
        /\ Len(log) = Val(produced).at
        /\ Done => /\ ret.found = Val(produced).results.found
                   /\ ret.case_pdf = Val(produced).results.case_pdf

NoGetIssued == \A i \in 1..Len(log) : log[i].method # "GET"

\* C5: when a dynamic endpoint yields a non-empty node list, the call returns
\* that list with no HTML GET issued and no static fallback invoked.
C5_DynamicSuccessIsReturned ==
    (op \in CatalogOps /\ ~IsNone(ajax_nodes) /\ Val(ajax_nodes) # << >>) =>
        /\ Done
        /\ ret = Val(ajax_nodes)
        /\ NoGetIssued
        /\ ~fallback_called

\* the second endpoint answered with nodes
C5_Witness ==
    /\ op = "fetch_court_complexes" /\ Done
    /\ ~IsNone(ajax_nodes) /\ Len(Val(ajax_nodes)) = 2
    /\ Len(log) = 2

NoNodesFrom(o) == IsNone(o) \/ Val(o) = << >>

\* C6: for a state code without an entry in the static district table, when
\* neither the dynamic endpoints nor the HTML scrape produce nodes,
\* fetch_districts returns exactly the two nodes "{state}01" and "{state}02".
C6_UnknownStateTwoNodes ==
    ( /\ op = "fetch_districts" /\ Done
      /\ args.state_code \notin DOMAIN fallback_districts
      /\ NoNodesFrom(ajax_nodes) /\ NoNodesFrom(html_nodes) ) =>
        /\ Len(ret) = 2
        /\ ret[1].value = args.state_code \o "01"
        /\ ret[2].value = args.state_code \o "02"

\* the text of element e is a listing line of the identifier: a serial
\* number, a dot, the identifier
IsListingLine(e, id) ==
    LET l == Strip(e.text)
    IN  /\ Len(l) >= 3 + Len(id)
        /\ IsNum(l[1]) /\ l[2] = "." /\ l[3] = " "
        /\ OccursAt(l, id, 4)

\* C7: when the cause-list page served holds a listing line "<n>. <identifier>
\* ...", wherever the line sits in the page, the search returns found = true
\* with serial_number = n.
C7_ListingLineGivesSerial ==
    ( /\ SearchDone
      /\ args.case_identifier # << >>
      /\ ~IsNone(form_resp) /\ ~IsError(Val(form_resp))
      /\ Val(form_resp).status = 200 ) =>
        \A k \in 1..Len(Val(form_resp).body.elems) :
            IsListingLine(Val(form_resp).body.elems[k], args.case_identifier) =>
                /\ ret.found
                /\ ret.serial_number = Some(Strip(Val(form_resp).body.elems[k].text)[1])

\* the form page was served with a CAPTCHA field and without the identifier
CaptchaDeadEnd ==
    /\ op = "search"
    /\ ~IsNone(form_resp) /\ ~IsError(Val(form_resp))
    /\ Val(form_resp).status = 200
    /\ Val(form_resp).body.forms # << >>
    /\ Val(form_resp).body.forms[1].captcha_field
    /\ ~ContainsCI(GetText(Val(form_resp).body.elems), args.case_identifier)

\* C8: a CAPTCHA on a form page that does not hold the identifier does not end
\* the chain: FORM_INTROSPECTION issued its one GET and nothing else (no
\* submission, no second fetch), and the TEXT_SEARCH candidates come next.
C8_CaptchaFallsThrough ==
    CaptchaDeadEnd =>
        /\ captcha_warned
        /\ Cardinality({i \in 1..Len(log) : log[i].phase = "form"}) = 1
        /\ \A i \in 1..Len(log) : log[i].method # "POST"
        /\ Len(log) = 1 => pc = "text" /\ idx = 1
        /\ Len(log) >= 2 =>
               log[2] = Req("GET", possible_urls(args.check_date)[1], "text")

\* after the CAPTCHA page, the candidates of TEXT_SEARCH were all fetched
C8_Witness ==
    /\ CaptchaDeadEnd
    /\ pc = "pdf"
    /\ Len(log) = 1 + Len(possible_urls(args.check_date))

\* C9: when every request fails, the resolver returns exactly the static
\* fallback of its level and the search returns found = false with every
\* other field null.
C9_TotalOutage ==
    (pc = "done" /\ log # << >> /\ ~reached) =>
        /\ ~raised
        /\ op \in CatalogOps => ret = get_fallback(op, args)
        /\ op = "search" =>
               /\ ret.found = FALSE
               /\ IsNone(ret.case_pdf) /\ IsNone(ret.serial_number)
               /\ IsNone(ret.court_name) /\ IsNone(ret.matched_line)

\* the search went through its 1 + 8 + 25 requests and none was answered
C9_Witness ==
    /\ op = "search" /\ pc = "done" /\ ~reached
    /\ Len(log) = 1 + Len(possible_urls(args.check_date)) + Len(pdf_urls(args.check_date))

\* a case lookup of the command line has ended not found and saved its result
MainNotFound ==
    /\ pc = "exited"
    /\ ~IsNone(out)
    /\ ~Val(cli).argv.causelist
    /\ ~Val(out).json.listed

\* the cause-list page answered 200, so the identifier was looked for and absent
ReachedButAbsent ==
    /\ MainNotFound
    /\ ~IsNone(form_resp)
    /\ ~IsError(Val(form_resp))
    /\ Val(form_resp).status = 200

\* no request of the lookup was answered
NothingReached == MainNotFound /\ log # << >> /\ ~reached

\* the note main saves when the lookup comes back with the result of a total
\* outage (every field at its default)
UnreachableNote ==
    case_output(Some(CNR), CHOOSE dt \in Dates : TRUE, DefaultResults, FALSE, None).note

\* C10: when a case lookup ends not found, the diagnostic note saved with the
\* result differs between "no upstream page could be reached" and "pages were
\* reached but the identifier was absent".
C10_NoteTellsUnreachableFromAbsent ==
    /\ NothingReached => Val(out).json.note = UnreachableNote
    /\ ReachedButAbsent => Val(out).json.note # UnreachableNote

\* C11: every node of every list a catalog resolver returns has a non-empty
\* code and a non-empty label, and no two nodes of one list share a code.
C11_NodesWellFormed ==
    CatalogDone =>
        /\ \A i \in 1..Len(ret) : ret[i].value # "" /\ ret[i].text # ""
        /\ \A i, j \in 1..Len(ret) : ret[i].value = ret[j].value => i = j

DD_MM_YYYY(dt) == Pad2(dt.d) \o "-" \o Pad2(dt.m) \o "-" \o Pad4(dt.y)
YYYY_MM_DD(dt) == Pad4(dt.y) \o "-" \o Pad2(dt.m) \o "-" \o Pad2(dt.d)

\* the URLs of TEXT_SEARCH for a date, each date in its claimed rendering
ClaimedTextUrls(dt) ==
    {CAUSE_LIST_URL, HOME_URL} \cup
    { p \o r : p \in {CAUSE_LIST_URL \o "&date=", ECOURTS_BASE \o "causeList?date=",
                     ECOURTS_BASE \o "causelistpdf?date="},
               r \in {DD_MM_YYYY(dt), YYYY_MM_DD(dt)} }

\* the two query URLs of download_cause_list_pdf, the date as DD-MM-YYYY
ClaimedDownloadUrls(a, dt) ==
    { ECOURTS_BASE \o f \o "?state=" \o a.state_code \o "&district=" \o a.district_code
          \o "&complex=" \o a.complex_code \o "&court=" \o a.court_code
          \o "&date=" \o DD_MM_YYYY(dt) : f \in {"causelist_pdf.php", "generate_causelist.php"} }

\* C15: for every calendar date, every outbound URL that takes DD-MM-YYYY
\* carries the date zero-padded as day-month-four-digit-year, and every one
\* that takes YYYY-MM-DD carries it as four-digit-year-month-day.
C15_DatesRendered ==
    /\ op = "search" =>
           \A k \in 1..Len(log) :
               log[k].phase = "text" => log[k].url \in ClaimedTextUrls(args.check_date)
    /\ op = "download_cause_list_pdf" =>
           \A k \in 1..Len(log) :
               k <= 2 => log[k].url \in ClaimedDownloadUrls(args,
                                            Val(strptime(args.date_str)))

\* the command line names no query: no --cnr, not all of --type, --number and
\* --year, no --causelist
NoQueryGiven(a) ==
    /\ IsNone(a.cnr)
    /\ IsNone(a.type) \/ IsNone(a.number) \/ IsNone(a.year)
    /\ ~a.causelist

\* C16: the CLI invoked with neither --cnr, nor the full triple
\* --type/--number/--year, nor --causelist ends with a non-zero exit code,
\* issues no network request and writes no result file.
C16_NoQueryRejected ==
    (~IsNone(cli) /\ NoQueryGiven(Val(cli).argv)) =>
        /\ pc = "exited"
        /\ ~IsNone(exit_code) /\ Val(exit_code) # 0
        /\ log = << >>
        /\ IsNone(out)

\* main has returned for a command line giving a type and a number but no year
C16_Witness ==
    /\ pc = "exited"
    /\ ~IsNone(cli)
    /\ ~IsNone(Val(cli).argv.type) /\ ~IsNone(Val(cli).argv.number)
    /\ IsNone(Val(cli).argv.year) /\ IsNone(Val(cli).argv.cnr)
    /\ exit_code = Some(1)

\* the command line is a well-formed query: a CNR, or a case type with an
\* integer case number and a year in range, or --causelist; the date valid or
\* absent
WellFormedQuery(a) ==
    /\ \/ TruthyStr(a.cnr) /\ Strip(Val(a.cnr)) # << >>
       \/ /\ TruthyStr(a.type) /\ ~IsNone(a.number) /\ ~IsNone(a.year)
          /\ Val(a.year) >= 1950
          /\ \A t \in Dates : Val(a.year) <= t.y + 1
       \/ a.causelist
    /\ ~IsNone(a.year) =>
           Val(a.year) >= 1950 /\ \A t \in Dates : Val(a.year) <= t.y + 1
    /\ IsNone(a.date) \/ ~IsNone(strptime(Val(a.date)))

\* C17: for every well-formed CLI query the CLI ends with exit code 0 and has
\* written one JSON result file, whether the case is found, not found, or the
\* upstream is unreachable.
C17_WellFormedQueryExitsZero ==
    (pc = "exited" /\ ~IsNone(cli) /\ WellFormedQuery(Val(cli).argv)) =>
        /\ exit_code = Some(0)
        /\ ~IsNone(out)

\* the failures named by the claim: no answer from the host, an answer whose
\* status is outside 200..299, an error while the body is streamed
DownloadFailed(d) ==
    \/ IsError(d.resp)
    \/ ~IsError(d.resp) /\ d.resp.status \notin 200..299
    \/ ~IsNone(d.fail_at)

\* C18: try_download returns False for every failure (unreachable host, status
\* outside 2xx, error while streaming) and True only when the whole body was
\* written to the destination; download_and_search_pdf returns the
\* destination path exactly when try_download returned True, None otherwise.
C18_DownloadResult ==
    ~IsNone(dl) =>
        /\ DownloadFailed(Val(dl)) => ~Val(dl).ok
        /\ Val(dl).ok => Val(dl).after = Some(Val(dl).resp.body)
        /\ Val(dl).returned = IF Val(dl).ok THEN Some(Val(dl).dest) ELSE None

\* C18 without the statuses that raise_for_status lets through
C18_Except3xx ==
    (~IsNone(dl) /\ (IsError(Val(dl).resp) \/ Val(dl).resp.status \notin 300..399))
        => C18_DownloadResult

\* the levels resolved by endpoints, then the page, then the static table
LowerLevels == {"fetch_districts", "fetch_court_complexes", "fetch_courts"}

\* the first n requests of the call are the POSTs to the first n endpoints
\* of the level, in the listed order
EndpointsInOrder(l, level, n) ==
    /\ n <= Len(ajax_urls(level))
    /\ n <= Len(l)
    /\ \A j \in 1..n : l[j] = Req("POST", ajax_urls(level)[j], "ajax")

\* C19: in fetch_districts, fetch_court_complexes and fetch_courts endpoint
\* k+1 is POSTed only after the endpoints 1..k were POSTed in the listed order
\* and none produced a result; the page is fetched only after every endpoint
\* was POSTed and none produced a result; the static fallback is taken only
\* after the page was fetched and its scrape produced no nodes.
C19_StrategiesInOrder ==
    [][ op' \in LowerLevels =>
          /\ log' # log =>
               LET n == Len(log')
               IN  /\ n >= 1
                   /\ log' = Append(log, log'[n])
                   /\ IsNone(ajax_nodes)
                   /\ IsNone(html_nodes)
                   /\ ~fallback_called
                   /\ log'[n].phase \in {"ajax", "html"}
                   /\ log'[n].phase = "ajax" => EndpointsInOrder(log', op', n)
                   /\ log'[n].phase = "html" =>
                        /\ n = Len(ajax_urls(op')) + 1
                        /\ EndpointsInOrder(log', op', n - 1)
                        /\ log'[n] = Req("GET", html_url(op', args'), "html")
          /\ (fallback_called' /\ ~fallback_called) =>
               /\ log' # << >>
               /\ log'[Len(log')].phase = "html"
               /\ IsNone(ajax_nodes')
               /\ html_nodes' \in {None, Some(<< >>)}
      ]_vars

\* the static fallback was taken after every endpoint and the page gave nothing
C19_Witness ==
    /\ op = "fetch_court_complexes"
    /\ pc = "done"
    /\ fallback_called
    /\ Len(log) = Len(ajax_urls(op)) + 1
    /\ html_nodes = Some(<< >>)

\* the form-page step of the call ended with a match (found = True)
FormMatched ==
    /\ ~IsNone(form_resp)
    /\ search_ecourts_cause_list(args.case_identifier, Val(form_resp)).results.found

\* requests first..last of the log are the GETs of the TEXT_SEARCH
\* candidates 1..(last - first + 1), in the listed order
CandidatesInOrder(l, first, last) ==
    /\ last <= Len(l)
    /\ last - first + 1 <= Len(possible_urls(args.check_date))
    /\ \A j \in first..last :
         l[j] = Req("GET", possible_urls(args.check_date)[j - first + 1], "text")

\* the request appended to the log by a step of search_cause_list_for_case
\* comes in the order form page, candidates, probes
SearchRequestInOrder(l, n) ==
    LET n_text == Len(possible_urls(args.check_date))
    IN  /\ l[n].phase \in {"form", "text", "pdf"}
        /\ l[n].phase = "form" => n = 1 /\ l[n] = Req("GET", CAUSE_LIST_URL, "form")
        /\ l[n].phase = "text" =>
             /\ n >= 2
             /\ l[1].phase = "form"
             /\ CandidatesInOrder(l, 2, n)
        /\ l[n].phase = "pdf" =>
             /\ n >= n_text + 2
             /\ l[1].phase = "form"
             /\ CandidatesInOrder(l, 2, n_text + 1)
             /\ \A j \in (n_text + 2)..n :
                  l[j] = Req("HEAD", pdf_urls(args.check_date)[j - n_text - 1], "pdf")

\* C20: search_cause_list_for_case issues its requests one after the other
\* in the order form page, TEXT_SEARCH candidates, PDF HEAD probes: a
\* candidate is fetched only after the form-page step ended without a match,
\* a HEAD probe only after every candidate was tried without a match.
C20_SearchRequestsInOrder ==
    [][ (op = "search" /\ pc \in {"form", "text", "pdf"} /\ log' # log) =>
          LET n == Len(log')
          IN  /\ n = Len(log) + 1
              /\ log' = Append(log, log'[n])
              /\ SearchRequestInOrder(log', n)
              /\ log'[n].phase = "text" => ~FormMatched
              /\ log'[n].phase = "pdf" => ~FormMatched /\ ~results.found
      ]_vars

\* C20 apart from the candidate page whose link urljoin rejects
C20_ExceptRejectedLink ==
    [][ (op = "search" /\ pc \in {"form", "text", "pdf"} /\ log' # log) =>
          LET n == Len(log')
          IN  /\ n = Len(log) + 1
              /\ log' = Append(log, log'[n])
              /\ SearchRequestInOrder(log', n)
              /\ log'[n].phase = "text" => ~FormMatched
              /\ log'[n].phase = "pdf" =>
                   /\ ~FormMatched
                   /\ results.found =>
                        results = TextIteration(args.case_identifier, DefaultResults,
                                      Resp(200, "text/html", PageBadHref)).results
      ]_vars

\* C14: every request of a call goes through the one session created for
\* that call, no session carries requests of two calls, and calls running at
\* the same time see nothing of each other: each request carries exactly the
\* cookies set by the answers to the call's own earlier requests, as it
\* would running alone.
C14_OneSessionPerCall ==
    /\ \A t \in Threads :
         thr[t].fn # "idle" => heap[thr[t].session].made_in = thr[t].call
    /\ \A s \in DOMAIN heap : heap[s].users \subseteq {heap[s].made_in}
    /\ \A s1, s2 \in DOMAIN heap : heap[s1].made_in = heap[s2].made_in => s1 = s2
    /\ ~IsNone(wire) =>
         /\ heap[Val(wire).session].made_in = Val(wire).call
         /\ Val(wire).cookies = Val(wire).own

\* two calls run at the same time, each has sent requests through its
\* session, and the request sent last carried a cookie
C14_Witness ==
    /\ \A t \in Threads : thr[t].fn # "idle" /\ thr[t].sent >= 1 /\ thr[t].got # {}
    /\ ~IsNone(wire)
    /\ Val(wire).cookies # {}

\* the form page was fetched with status 200 and its flattened text holds
\* the identifier of the call, compared case-insensitively
FormPageHasId ==
    /\ op = "search"
    /\ ~IsNone(form_resp)
    /\ ~IsError(Val(form_resp))
    /\ Val(form_resp).status = 200
    /\ ContainsCI(GetText(Val(form_resp).body.elems), args.case_identifier)

\* the search returned found = true after the form-page request, with no
\* fetch of a candidate and no probe
EndedAtFormPage ==
    /\ pc \notin {"form", "text", "pdf"}
    /\ ~raised
    /\ ret.found
    /\ ~IsNone(ret.matched_line)
    /\ log[1] = Req("GET", CAUSE_LIST_URL, "form")
    /\ \A i \in 1..Len(log) : log[i].phase \notin {"text", "pdf"}

\* the claim as stated: any identifier, the empty one of the cause-list mode
\* included
C21_AsStated == FormPageHasId => EndedAtFormPage

\* C21: when the form page is fetched with status 200 and its flattened text
\* contains the identifier (case-insensitively), the identifier not being
\* empty, the call returns found = true from that page and issues no
\* TEXT_SEARCH fetch and no PDF HEAD probe.
C21_FormPageMatchEndsSearch ==
    (FormPageHasId /\ args.case_identifier # << >>) => EndedAtFormPage

\* a form-page match on the type/number/year identifier, in other letter case
C21_Witness ==
    /\ FormPageHasId
    /\ args.case_identifier # << >>
    /\ EndedAtFormPage
    /\ ~Contains(GetText(Val(form_resp).body.elems), args.case_identifier)

\* the first seven candidates as the claim orders them: the token-bearing
\* endpoint, the same with the date in its two forms, the legacy paths
TextOrder(dt) ==
    << CAUSE_LIST_URL,
       CAUSE_LIST_URL \o "&date=" \o strftime_ddmmyyyy(dt),
       CAUSE_LIST_URL \o "&date=" \o strftime_yyyy_mm_dd(dt),
       ECOURTS_BASE \o "causeList?date=" \o strftime_ddmmyyyy(dt),
       ECOURTS_BASE \o "causeList?date=" \o strftime_yyyy_mm_dd(dt),
       ECOURTS_BASE \o "causelistpdf?date=" \o strftime_ddmmyyyy(dt),
       ECOURTS_BASE \o "causelistpdf?date=" \o strftime_yyyy_mm_dd(dt) >>

\* the number of candidate fetches in a log
TextFetches(l) == Len(SelectSeq(l, LAMBDA q : q.phase = "text"))

\* a step of TEXT_SEARCH fetches the next candidate of the fixed order, and
\* a candidate that gave no match is followed by the next one (by the
\* probes after the last)
TextStepInOrder ==
    LET k == TextFetches(log) + 1
    IN  /\ log' = Append(log, log'[Len(log')])
        /\ log'[Len(log')].method = "GET"
        /\ log'[Len(log')].phase = "text"
        /\ k <= Len(TextOrder(args.check_date)) =>
               log'[Len(log')].url = TextOrder(args.check_date)[k]
        /\ k <= Len(possible_urls(args.check_date))
        /\ ~results'.found =>
               IF k < Len(possible_urls(args.check_date))
               THEN pc' = "text" /\ TextFetches(log') = k
               ELSE pc' = "pdf"

\* C22: TEXT_SEARCH fetches its candidates in the fixed order (token-bearing
\* endpoint, the same with the date as DD-MM-YYYY, then as YYYY-MM-DD, then
\* the legacy paths); a candidate that fails or answers non-200 is skipped;
\* after the first candidate that yields a match no further one is fetched.
C22_CandidatesInOrder ==
    [][ (op = "search" /\ pc = "text" /\ log' # log) =>
            /\ TextStepInOrder
            /\ ~results.found
      ]_vars

\* C22 apart from the candidate page whose link urljoin rejects
C22_ExceptRejectedLink ==
    [][ (op = "search" /\ pc = "text" /\ log' # log) =>
            /\ TextStepInOrder
            /\ results.found =>
                 results = TextIteration(args.case_identifier, DefaultResults,
                               Resp(200, "text/html", PageBadHref)).results
      ]_vars

\* the search is over and has returned (to main or to its caller)
SearchReturned ==
    /\ op = "search"
    /\ pc \in {"done", "downloaded", "exited"}
    /\ ~raised

\* a candidate page was fetched with status 200 and its flattened text holds
\* the (non-empty) identifier
CandidateHasId == op = "search" /\ ~IsNone(text_hit) /\ args.case_identifier # << >>

\* C23: if a TEXT_SEARCH candidate page is fetched with status 200 and its
\* flattened visible text contains the identifier (case-insensitively), also
\* when the identifier's characters come from adjacent elements, the search
\* returns found = true.
C23_CandidateMatchIsFound ==
    (CandidateHasId /\ SearchReturned) => ret.found

\* one element of the page holds the whole identifier
InOneElement(page, id) ==
    \E i \in 1..Len(page.elems) : ContainsCI(page.elems[i].text, id)

\* C23 when one element holds the whole identifier and urljoin accepts the
\* link that follows it: found = true is returned at once
C23_WithinOneElement ==
    (/\ CandidateHasId
     /\ InOneElement(Val(text_hit), args.case_identifier)
     /\ Val(text_hit) # PageBadHref) =>
        /\ pc \notin {"text", "pdf"}
        /\ SearchReturned => ret.found

\* the number of HEAD probes in a log
Probes(l) == Len(SelectSeq(l, LAMBDA q : q.phase = "pdf"))

\* candidate number k of the cross product: every file name of a base before
\* the next base
ProbeUrl(dt, k) ==
    LET n == Len(pdf_name_candidates(dt))
    IN  base_attempts[((k - 1) \div n) + 1] \o pdf_name_candidates(dt)[((k - 1) % n) + 1]

\* C24: PDF_NAME_GUESS probes the cross product of bases and file names in
\* the fixed order, all names of a base before the next base, one HEAD per
\* candidate; the first candidate answered with status 200 and a PDF content
\* type becomes case_pdf, the result has found = false and no later candidate
\* is probed; a probe that fails or is answered otherwise is skipped.
C24_ProbesInOrder ==
    [][ (op = "search" /\ pc = "pdf" /\ log' # log) =>
          LET k == Probes(log) + 1
              last == Len(base_attempts) * Len(pdf_name_candidates(args.check_date))
          IN  /\ IsNone(probe_hit)
              /\ k <= last
              /\ log' = Append(log, Req("HEAD", ProbeUrl(args.check_date, k), "pdf"))
              /\ IF ~IsNone(probe_hit')
                 THEN /\ probe_hit' = Some(ProbeUrl(args.check_date, k))
                      /\ pc' = "done" /\ ~raised'
                      /\ ret'.case_pdf = probe_hit'
                      /\ ~ret'.found
                 ELSE /\ results' = results
                      /\ IF k < last THEN pc' = "pdf" /\ ret' = << >>
                         ELSE pc' = "done" /\ ~raised' /\ ret' = results
      ]_vars

\* the seventh candidate (second name of the second base) was the first to
\* be answered with a PDF
C24_Witness ==
    /\ op = "search" /\ pc = "done"
    /\ Probes(log) = Len(pdf_name_candidates(args.check_date)) + 2
    /\ probe_hit = Some(base_attempts[2] \o pdf_name_candidates(args.check_date)[2])
    /\ ret.case_pdf = probe_hit
    /\ ~ret.found

\* the calls of the resolvers and of search_cause_list_for_case, made
\* directly as the web application and the tests make them
CallsNext ==
    \/ CallFetchStates
    \/ CallFetchDistricts
    \/ CallFetchCourtComplexes
    \/ CallFetchCourts
    \/ AjaxStep
    \/ HtmlStep
    \/ CallSearch
    \/ FormStep
    \/ TextStep
    \/ HeadStep
    \/ Return

\* the calls run on: a request that was sent returns or times out, and the
\* function takes its next step
LiveSpec == Init /\ [][CallsNext]_vars /\ WF_vars(CallsNext)

\* the most requests a call of the running function may issue
RequestBudget ==
    IF op = "search"
    THEN 1 + Len(possible_urls(args.check_date)) + Len(pdf_urls(args.check_date))
    ELSE IF op = "fetch_states" THEN 1
    ELSE Len(ajax_urls(op)) + 1

\* the requests of the strategies (main's download of the document apart)
StrategyRequests == SelectSeq(log, LAMBDA q : q.phase # "download")

\* no strategy sends a request twice, and the call stays within its budget
NoRetry ==
    op \in CatalogOps \cup {"search"} =>
        /\ \A i, j \in 1..Len(StrategyRequests) :
             (i # j /\ StrategyRequests[i].phase = StrategyRequests[j].phase) =>
                 StrategyRequests[i].url # StrategyRequests[j].url
        /\ Len(StrategyRequests) <= RequestBudget

\* C25: within one call no strategy re-attempts a request: each endpoint,
\* each TEXT_SEARCH candidate and each PDF candidate is requested at most
\* once, so a search issues at most 1 + 8 + 25 requests and a resolver call
\* at most one request per endpoint plus one page GET; and every call
\* terminates once its requests have returned or timed out.
C25_NoRetryAndTermination ==
    /\ []NoRetry
    /\ [](op = "search" => RequestBudget = 34)
    /\ (op # "idle") ~> (pc \in {"done", "exited"})

\* a search that used its whole budget and returned
C25_Witness ==
    /\ op = "search" /\ pc = "done"
    /\ Len(log) = 34

\* the failures of a dynamic endpoint: transport error or timeout, a status
\* other than 200, a body that is no JSON, an entry that is no JSON object
EndpointFailed(r) ==
    \/ IsError(r)
    \/ ~IsError(r) /\ r.status # 200
    \/ ~IsError(r) /\ r.status = 200 /\ r.body.json = "invalid"
    \/ ~IsError(r) /\ r.status = 200 /\ r.body.json = "list"
          /\ \E i \in 1..Len(r.body.items) : ~r.body.items[i].isdict

\* an endpoint that answers with nothing, a page without any drop-down
EndpointNothing == Resp(200, "application/json", JsonList(<< >>))
PageNothing == Resp(200, "text/html", PageNoSelect)

KeptOptions(level, page, i) ==
    LET Keep(o) == KeepOption(level, o)
        kept == SelectSeq(page.selects[i].options, Keep)
    IN  [k \in 1..Len(kept) |->
           Node(Str(Strip(kept[k].value)), Str(Strip(kept[k].text)))]

\* the first option list, in the order of the patterns, that is not empty
\* once the placeholders are removed
RECURSIVE FirstNonEmpty(_, _, _)
FirstNonEmpty(level, page, pats) ==
    IF pats = << >> THEN << >>
    ELSE LET i == FindSelect(page.selects, Head(pats)[1], Head(pats)[2])
         IN  IF i # 0 /\ KeptOptions(level, page, i) # << >>
             THEN KeptOptions(level, page, i)
             ELSE FirstNonEmpty(level, page, Tail(pats))

\* C27: the HTML scrape of a level tries its patterns against the name, then
\* id, then class attributes of the select elements and returns the first
\* option list that is non-empty after the placeholders are removed; a
\* matching select with only placeholder options does not stop the search.
C27_FirstNonEmptyOptionList ==
    (op \in CatalogOps /\ pc = "html") =>
        \A r \in HtmlResponses :
            ~IsError(r) =>
                HtmlScrape(op, r.body) = FirstNonEmpty(op, r.body, select_patterns(op))

\* C27 for the pages on which the first select found holds a real option or
\* no later pattern finds another select
C27_FirstSelectFound ==
    (op \in CatalogOps /\ pc = "html") =>
        \A r \in HtmlResponses :
            (~IsError(r) /\ r.body # PageLaterSelect) =>
                HtmlScrape(op, r.body) = FirstNonEmpty(op, r.body, select_patterns(op))

\* the option texts of the model's pages that are placeholders: they begin,
\* case-insensitively, with "select" or "choose"
PlaceholderLabels ==
    { Str(Strip(o.text)) :
        o \in { q \in UNION { UNION { { p.selects[i].options[k] :
                                          k \in 1..Len(p.selects[i].options) } :
                                      i \in 1..Len(p.selects) } :
                              p \in CatalogPages } :
                /\ Strip(q.text) # << >>
                /\ LowerTok(Head(Strip(q.text))) \in {"select", "choose"} } }

\* C28: no node returned by the HTML scrape of any level has an empty label,
\* a label that begins (case-insensitively) with "select" or "choose", or an
\* empty option value.
C28_NoPlaceholderNode ==
    (op \in CatalogOps /\ ~IsNone(html_nodes)) =>
        \A i \in 1..Len(Val(html_nodes)) :
            /\ Val(html_nodes)[i].text # ""
            /\ Val(html_nodes)[i].text \notin PlaceholderLabels
            /\ Val(html_nodes)[i].value # ""

\* C28 for the placeholder texts a level lists itself
C28_ListedPlaceholders ==
    (op \in CatalogOps /\ ~IsNone(html_nodes)) =>
        \A i \in 1..Len(Val(html_nodes)) :
            /\ Val(html_nodes)[i].text # ""
            /\ Val(html_nodes)[i].text \notin
                   { "Select " \o w : w \in {"State", "District", "Complex", "Court"} }
                   \/ (op = "fetch_courts" /\ Val(html_nodes)[i].text = "Select Complex")
            /\ Val(html_nodes)[i].value # ""

\* the static table of the call's level holds a list for its exact parent
\* codes; get_fallback_courts has no table at all
InStaticTable ==
    CASE op = "fetch_districts" -> args.state_code \in DOMAIN fallback_districts
      [] op = "fetch_court_complexes" ->
           /\ args.state_code \in DOMAIN fallback_complexes
           /\ args.district_code \in DOMAIN fallback_complexes[args.state_code]
      [] OTHER -> FALSE

\* the call below the state level ended with the static fallback for parent
\* codes that the table does not hold
SyntheticFallback ==
    /\ CatalogDone /\ op # "fetch_states"
    /\ fallback_called /\ ~InStaticTable

\* the code of the call's direct parent
ParentCode ==
    CASE op = "fetch_districts" -> args.state_code
      [] op = "fetch_court_complexes" -> args.district_code
      [] OTHER -> args.complex_code

\* C29 as stated: at the district, complex and court level alike, the static
\* fallback without a table entry returns exactly two nodes, coded parent "01"
\* and parent "02".
C29_AsStated ==
    SyntheticFallback =>
        /\ Len(ret) = 2
        /\ ret[1].value = ParentCode \o "01"
        /\ ret[2].value = ParentCode \o "02"

\* the codes of the nodes returned
CodesOf(nodes) == [i \in 1..Len(nodes) |-> nodes[i].value]

\* C29: without a table entry for the exact parent codes the static fallback
\* returns two districts coded state "01" and "02", three complexes coded
\* state district "C01" to "C03", and at the court level, which has no table,
\* always five courts coded complex "CT01" to "CT05".
C29_SyntheticNodesPerLevel ==
    SyntheticFallback =>
        CodesOf(ret) =
            CASE op = "fetch_districts" ->
                   << args.state_code \o "01", args.state_code \o "02" >>
              [] op = "fetch_court_complexes" ->
                   << args.state_code \o args.district_code \o "C01",
                      args.state_code \o args.district_code \o "C02",
                      args.state_code \o args.district_code \o "C03" >>
              [] OTHER ->
                   << args.complex_code \o "CT01", args.complex_code \o "CT02",
                      args.complex_code \o "CT03", args.complex_code \o "CT04",
                      args.complex_code \o "CT05" >>

C29_Witness ==
    /\ SyntheticFallback
    /\ op = "fetch_court_complexes"
    /\ args.district_code \notin DOMAIN fallback_complexes.MH
    /\ Len(ret) = 3

\* the integer token at the start of the line
LeadingInteger(line) ==
    LET l == LStrip(line)
    IN  IF l # << >> /\ IsNum(l[1]) /\ BoundaryAfter(l, 1)
        THEN Some(l[1]) ELSE None

\* the digits after the first "Serial" of the line, or else the integer
\* token at its start, or else nothing
SerialThenLeading(line) ==
    IF \E i \in 1..Len(line) : SerialWordAt(line, i)
    THEN LET i == CHOOSE i \in 1..Len(line) :
                      /\ SerialWordAt(line, i)
                      /\ \A j \in 1..(i - 1) : ~SerialWordAt(line, j)
         IN  Some(line[SkipColonWs(line, i + 1)])
    ELSE LeadingInteger(line)

\* the line in which the search that returned found = true matched the
\* identifier: a line of the form page's text, or the text of the element of
\* the matching candidate page
LineMatched ==
    LET id == args.case_identifier
        HasId(s) == ContainsCI(s, id)
        HasIdElem(e) == ContainsCI(e.text, id)
    IN  IF FormMatched
        THEN LET lines == SplitLines(GetText(Val(form_resp).body.elems))
             IN  lines[FirstIndex(lines, HasId)]
        ELSE LET elems == Val(text_hit).elems
             IN  Strip(elems[FirstIndex(elems, HasIdElem)].text)

\* C30: whichever strategy finds the match, serial_number is the number after
\* "Serial" in the matched line, or else the integer token at the start of
\* the line, and it is null only when the line has neither.
C30_SerialBothPatterns ==
    (SearchDone /\ ret.found) =>
        ret.serial_number = SerialThenLeading(LineMatched)

\* the lines of the text of the form page that matched
FormLines == SplitLines(GetText(Val(form_resp).body.elems))

\* the index in FormLines of the first line holding the identifier
FormLineIndex ==
    CHOOSE i \in 1..Len(FormLines) :
        /\ ContainsCI(FormLines[i], args.case_identifier)
        /\ \A j \in 1..(i - 1) : ~ContainsCI(FormLines[j], args.case_identifier)

\* the matched line with the n lines before it and the n lines after it,
\* clipped at the ends of the text
WindowAround(n) ==
    LET i == FormLineIndex
        lo == IF i - n > 1 THEN i - n ELSE 1
        hi == IF i + n < Len(FormLines) THEN i + n ELSE Len(FormLines)
    IN  Join(SubSeq(FormLines, lo, hi))

\* the search ended with the match of the form page
FormFound == SearchDone /\ FormMatched /\ ret.found

\* C31: the court name of a form-page match is what the court-name patterns
\* find in the matched line, the 5 lines before it and the 5 lines after it:
\* a name on the 5th line after the match is found, one farther away is not.
C31_CourtNameWindow ==
    FormFound => ret.court_name = CourtName(WindowAround(5), court_patterns)

\* the page on which the search matched the identifier
MatchPage == IF FormMatched THEN Val(form_resp).body ELSE Val(text_hit)

\* the index of the first element of the page whose text holds the
\* identifier, 0 when the identifier spans elements
MatchElem ==
    LET HasId(e) == ContainsCI(e.text, args.case_identifier)
    IN  FirstIndex(MatchPage.elems, HasId)

\* the text of the last h1, h2, h3 or strong element before element k
NearestHeadingBefore(elems, k) ==
    IF \E h \in 1..(k - 1) : IsHeading(elems[h])
    THEN LET h == CHOOSE h \in 1..(k - 1) :
                      /\ IsHeading(elems[h])
                      /\ \A j \in (h + 1)..(k - 1) : ~IsHeading(elems[j])
         IN  Some(Str(Strip(elems[h].text)))
    ELSE None

\* the search returned a match found inside one element of a page on which
\* no court-name pattern matches anywhere
MatchWithoutCourtText ==
    /\ SearchDone /\ ret.found
    /\ (FormMatched \/ ~IsNone(text_hit))
    /\ MatchElem # 0
    /\ CourtName(GetText(MatchPage.elems), court_patterns) = None

\* C32: when the court-name patterns find nothing, court_name is the text of
\* the nearest heading (h1, h2, h3, bold) before the match, and null when no
\* heading precedes the match; a heading after the match, or one farther
\* before it than another, is never chosen.
C32_NearestPrecedingHeading ==
    MatchWithoutCourtText =>
        ret.court_name = NearestHeadingBefore(MatchPage.elems, MatchElem)

\* the search was called in cause-list mode and has returned
CauseListReturned ==
    /\ op = "search" /\ ~raised
    /\ pc \notin {"form", "text", "pdf"}
    /\ args.case_identifier = << >>

\* the form page served carried a link ending in .pdf
FormPageHasPdfLink ==
    /\ ~IsNone(form_resp)
    /\ ~IsNone(search_ecourts_cause_list(args.case_identifier,
                                         Val(form_resp)).results.case_pdf)

\* C33: a search with the empty identifier of the cause-list mode never
\* returns found = true, whatever the pages hold, and a document link in its
\* result is a name-guess candidate URL whose HEAD probe answered 200 with a
\* PDF content type.
C33_CauseListModeResult ==
    CauseListReturned =>
        /\ ~ret.found
        /\ ~IsNone(ret.case_pdf) =>
               /\ probe_hit = ret.case_pdf
               /\ \E k \in 1..(Len(base_attempts)
                                 * Len(pdf_name_candidates(args.check_date))) :
                      ProbeUrl(args.check_date, k) = Val(ret.case_pdf)

C33_Witness ==
    /\ CauseListReturned
    /\ FormPageHasPdfLink
    /\ ~IsNone(ret.case_pdf)
    /\ Len(SelectSeq(log, LAMBDA q : q.phase = "text")) > 1

\* main has written the output of a case lookup
CaseOutputWritten ==
    /\ op = "search" /\ pc = "exited"
    /\ ~IsNone(cli) /\ ~Val(cli).argv.causelist
    /\ ~IsNone(out)

\* the keys of the output that describe a listing
ListingKeys == {"serial_number", "court_name", "matched_line", "case_pdf_link"}

\* C34: in the output of a case lookup "listed" is true exactly when the
\* search result has found = true; serial_number, court_name, matched_line
\* and case_pdf_link appear only when listed is true, so a document link that
\* came with found = false is not written; "note" appears exactly when listed
\* is false.
C34_CaseOutputShape ==
    CaseOutputWritten =>
        LET json == Val(out).json
        IN  /\ json.listed = ret.found
            /\ (ListingKeys \cap DOMAIN json # {}) => json.listed
            /\ ("note" \in DOMAIN json) <=> ~json.listed

C34_Witness ==
    /\ CaseOutputWritten
    /\ ~ret.found
    /\ ~IsNone(ret.case_pdf)
    /\ "case_pdf_link" \notin DOMAIN Val(out).json
    /\ "note" \in DOMAIN Val(out).json

\* C35: when try_download returns False the file system is unchanged: no
\* file is at the destination that was not there before the call, and a file
\* that was there keeps its content.
C35_FailedDownloadLeavesFiles ==
    (~IsNone(dl) /\ ~Val(dl).ok) => Val(dl).after = Val(dl).before

\* the route has answered the request
Answered == ~IsNone(web) /\ pc = "exited" /\ ~IsNone(Val(web).reply)

\* its answer is the success object
AnsweredSuccess ==
    /\ Val(Val(web).reply).status = 200
    /\ "success" \in DOMAIN Val(Val(web).reply).json

\* its answer is an error object with an error status
AnsweredError ==
    /\ Val(Val(web).reply).status >= 400
    /\ DOMAIN Val(Val(web).reply).json = {"error"}

\* C36: api_download_complex answers success exactly when at least one
\* court's PDF was downloaded; then courts_downloaded is between 1 and
\* total_courts and is the number of courts whose download returned content,
\* and the zip file is written; when no PDF was downloaded or a parameter is
\* missing it answers an error and writes no file.
C36_SuccessIffDownloaded ==
    Answered =>
        LET w == Val(web)
            json == Val(w.reply).json
        IN  /\ AnsweredSuccess <=> (~MissingParameter(w.data) /\ w.got >= 1)
            /\ AnsweredSuccess =>
                 /\ 1 <= json.courts_downloaded
                 /\ json.courts_downloaded <= json.total_courts
                 /\ json.courts_downloaded = w.got
                 /\ ~IsNone(w.file)
            /\ ~AnsweredSuccess => (AnsweredError /\ IsNone(w.file))

\* every court returned by fetch_courts has a string for its label
LabelsAreStrings == \A i \in 1..Len(ret) : ret[i].text # JSON_NULL

\* the claim of C36 for the requests whose courts all have a string label
C36_ExceptNullLabel ==
    (Answered /\ (op = "fetch_courts" => LabelsAreStrings)) =>
        LET w == Val(web)
            json == Val(w.reply).json
        IN  /\ AnsweredSuccess <=> (~MissingParameter(w.data) /\ w.got >= 1)
            /\ AnsweredSuccess =>
                 /\ 1 <= json.courts_downloaded
                 /\ json.courts_downloaded <= json.total_courts
                 /\ json.courts_downloaded = w.got
                 /\ ~IsNone(w.file)
            /\ ~AnsweredSuccess => (AnsweredError /\ IsNone(w.file))

====
